---------------------------- MODULE Spec2Model ----------------------------
(***************************************************************************)
(* A model of the vxdebug warp-control engine (Backend), its DM access     *)
(* layer and the DM register catalog, together with the debug module and   *)
(* target they talk to.                                                    *)
(*                                                                         *)
(* A uint32_t is modelled as the set of the positions of its set bits      *)
(* (a subset of 0..31), so that masks, shifts and the 2^32 wrap-around of  *)
(* the C++ code are kept exactly.  uint8_t values and small counters are   *)
(* plain naturals.                                                         *)
(***************************************************************************)
EXTENDS Integers, Sequences, FiniteSets, TLC

VARIABLES
    hw,             \* the target: DM registers, warps, thread registers, memory
    state_,         \* Backend::state_ (cached selection, cached pc, platinfo)
    breakpoints_,   \* Backend::breakpoints_
    transport_,     \* Backend::transport_ (is there one, is it connected)
    poll_retries_,  \* Backend::poll_retries_
    hist,           \* the operations completed so far, oldest first
    stub            \* the GDBStub object, its TCPServer and the bytes exchanged

vars == <<hw, state_, breakpoints_, transport_, poll_retries_, hist, stub>>

---------------------------------------------------------------------------
(* Bounds of the model *)

MaxSelOps == 2          \* selection operations per behaviour
MaxLatency == 2         \* DCTRL reads for which a request may stay busy
MaxPollRetries == 2     \* largest poll_retries_ / max_retries drawn
BigNumWarps == 34       \* warps of the two-window platform
MaxFaultAt == 24        \* last request index that may be answered by a NACK
MaxLen == 6             \* longest byte vector written or read
MaxMemOps == 3          \* memory operations per behaviour

---------------------------------------------------------------------------
(* Return codes (util.h) *)

RCODE_OK == 0
RCODE_ERROR == -1
RCODE_TIMEOUT == -2
RCODE_INVALID_ARG == -4
RCODE_TRANSPORT_ERR == -7
RCODE_NONESELECTED_ERR == -8

---------------------------------------------------------------------------
(* 32-bit words as sets of bit positions *)

WordBits == 0..31

\* the word of a natural n < 2^31
Bits(n) == {i \in 0..30 : (n \div (2^i)) % 2 = 1}

RECURSIVE SumBits(_)
SumBits(W) == IF W = {} THEN 0
              ELSE LET b == CHOOSE x \in W : TRUE IN 2^b + SumBits(W \ {b})

\* the natural of a word below 2^31
Val(W) == SumBits(W)

\* w << k and w >> k on uint32_t
Shl(W, k) == {b + k : b \in W} \cap WordBits
Shr(W, k) == {b - k : b \in W} \cap WordBits

\* ~w, a & b, a | b
Not32(W) == WordBits \ W
And32(A, B) == A \cap B
Or32(A, B) == A \cup B

RECURSIVE AddCarry(_, _, _, _)
AddCarry(A, B, i, c) ==
    IF i = 32 THEN {}
    ELSE LET s == (IF i \in A THEN 1 ELSE 0) + (IF i \in B THEN 1 ELSE 0) + c
         IN  (IF s % 2 = 1 THEN {i} ELSE {}) \cup AddCarry(A, B, i + 1, s \div 2)

\* a + b and a - b on uint32_t (modulo 2^32)
Add32(A, B) == AddCarry(A, B, 0, 0)
Sub32(A, B) == AddCarry(A, Not32(B), 0, 1)

\* a < b on uint32_t: the highest bit in which they differ belongs to b
Lt32(A, B) ==
    \E i \in WordBits : i \in B /\ i \notin A
                        /\ \A j \in WordBits : j > i => ((j \in A) <=> (j \in B))

---------------------------------------------------------------------------
(* DM register catalog (dmdefs.h) *)

FieldInfo(msb, lsb) == [msb |-> msb, lsb |-> lsb]

PLATFORM_FIELDS ==
    [platformid |-> FieldInfo(31, 28), numclusters |-> FieldInfo(27, 21),
     numcores |-> FieldInfo(20, 12), numwarps |-> FieldInfo(11, 3),
     numthreads |-> FieldInfo(2, 0)]

DCONFIG_FIELDS ==
    [ndmresetcyc |-> FieldInfo(31, 29), resethaltreqcyc |-> FieldInfo(28, 26),
     ebreakh |-> FieldInfo(0, 0)]

DSELECT_FIELDS ==
    [winsel |-> FieldInfo(31, 22), warpsel |-> FieldInfo(21, 7),
     threadsel |-> FieldInfo(6, 0)]

WMASK_FIELDS == [mask |-> FieldInfo(31, 0)]
WACTIVE_FIELDS == [astatus |-> FieldInfo(31, 0)]
WSTATUS_FIELDS == [status |-> FieldInfo(31, 0)]

DCTRL_FIELDS ==
    [dmactive |-> FieldInfo(31, 31), ndmreset |-> FieldInfo(30, 30),
     allhalted |-> FieldInfo(29, 29), anyhalted |-> FieldInfo(28, 28),
     allrunning |-> FieldInfo(27, 27), anyrunning |-> FieldInfo(26, 26),
     allunavail |-> FieldInfo(25, 25), anyunavail |-> FieldInfo(24, 24),
     hacause |-> FieldInfo(11, 9), injectstate |-> FieldInfo(8, 7),
     injectreq |-> FieldInfo(6, 6), stepstate |-> FieldInfo(5, 4),
     stepreq |-> FieldInfo(3, 3), resethaltreq |-> FieldInfo(2, 2),
     resumereq |-> FieldInfo(1, 1), haltreq |-> FieldInfo(0, 0)]

DPC_FIELDS == [pc |-> FieldInfo(31, 0)]
DINJECT_FIELDS == [instr |-> FieldInfo(31, 0)]
DSCRATCH_FIELDS == [data |-> FieldInfo(31, 0)]

DM_REGS ==
    [PLATFORM |-> PLATFORM_FIELDS, DCONFIG |-> DCONFIG_FIELDS,
     DSELECT |-> DSELECT_FIELDS, WMASK |-> WMASK_FIELDS,
     WACTIVE |-> WACTIVE_FIELDS, WSTATUS |-> WSTATUS_FIELDS,
     DCTRL |-> DCTRL_FIELDS, DPC |-> DPC_FIELDS,
     DINJECT |-> DINJECT_FIELDS, DSCRATCH |-> DSCRATCH_FIELDS]

DMReg_t == DOMAIN DM_REGS

\* variant: the mask is not shifted to the field's position
mask_unshifted(finfo) ==
    LET width == finfo.msb - finfo.lsb + 1
    IN  IF width = 32 THEN WordBits ELSE Bits(2^width - 1)

\* FieldInfo_t::mask
mask(finfo) ==
    LET width == finfo.msb - finfo.lsb + 1
    IN  IF width = 32 THEN WordBits
        ELSE Shl(Bits(2^width - 1), finfo.lsb)

\* get_dmreg_field: TRUE when the lookup does not throw
has_dmreg_field(reg, fieldname) == fieldname \in DOMAIN DM_REGS[reg]

get_dmreg_field(reg, fieldname) == DM_REGS[reg][fieldname]

extract_dmreg_field(reg, fieldname, reg_value) ==
    LET finfo == get_dmreg_field(reg, fieldname)
    IN  Shr(And32(reg_value, mask(finfo)), finfo.lsb)

\* variant: the field's old bits are not cleared before the new ones are set
set_dmreg_field_noclear(reg, fieldname, reg_value, field_value) ==
    LET finfo == get_dmreg_field(reg, fieldname)
    IN  Or32(reg_value, And32(Shl(field_value, finfo.lsb), mask(finfo)))

set_dmreg_field(reg, fieldname, reg_value, field_value) ==
    LET finfo == get_dmreg_field(reg, fieldname)
        field_mask == mask(finfo)
    IN  Or32(And32(reg_value, Not32(field_mask)),
             And32(Shl(field_value, finfo.lsb), field_mask))


---------------------------------------------------------------------------
(* RISC-V names used by the engine (rvdefs.h, riscv.cpp) *)

RV_CSR_VX_DSCRATCH == 1970      \* 0x7b2
RV_CSR_MISA == 769              \* 0x301, read-only on the target
RV_CSR_MSCRATCH == 832          \* 0x340, read-write

\* ABI names t0 and t1 are x5 and x6
T0 == 5
T1 == 6

\* rv_asm of one line: the instruction the assembler produces, kept symbolic
\* (the assembler is injective on the lines the engine uses)
asm_csrw(csr, rs) == [op |-> "csrw", csr |-> csr, r |-> rs]
asm_csrr(rd, csr) == [op |-> "csrr", csr |-> csr, r |-> rd]
asm_lw_t1_t0 == [op |-> "lw", csr |-> 0, r |-> T1]
asm_sw_t1_t0 == [op |-> "sw", csr |-> 0, r |-> T1]
asm_addi_t0_4 == [op |-> "addi", csr |-> 0, r |-> T0]
NoInstr == [op |-> "none", csr |-> 0, r |-> 0]

\* rv_asm({"ebreak"}): 0x00100073
asm_ebreak == Bits(1048691)

---------------------------------------------------------------------------
(* The target: debug module, warps, thread registers and memory.            *)
(* hw.cfg is the platform inventory; hw.latency is the number of DCTRL      *)
(* reads for which an inject or step request reads as busy.                 *)

HwNumWarps(h) == h.cfg.numclusters * h.cfg.numcores * h.cfg.numwarps
HwNumThreads(h) == 2^(h.cfg.numthreads)
HwWarps(h) == 0..(HwNumWarps(h) - 1)
HwNumWin(h) == (HwNumWarps(h) + 31) \div 32

HwField(reg, fieldname, n) == Shl(Bits(n), get_dmreg_field(reg, fieldname).lsb)
HwFlag(reg, fieldname, b) == IF b THEN HwField(reg, fieldname, 1) ELSE {}

HwWinsel(h) == Val(extract_dmreg_field("DSELECT", "winsel", h.dselect))
HwWarpsel(h) == Val(extract_dmreg_field("DSELECT", "warpsel", h.dselect))
HwThreadsel(h) == Val(extract_dmreg_field("DSELECT", "threadsel", h.dselect))

\* the thread the DSELECT pointer addresses, when there is one
HwThreadValid(h) == HwWarpsel(h) < HwNumWarps(h) /\ HwThreadsel(h) < HwNumThreads(h)
HwThread(h) == <<HwWarpsel(h), HwThreadsel(h)>>

\* bitmap of the warps of set S that lie in window win
HwWindow(S, win) == {w - 32 * win : w \in {x \in S : x \div 32 = win}}

\* warps selected by the window masks
HwMasked(h) == {w \in HwWarps(h) : (w % 32) \in h.wmask[w \div 32]}

HwPlatformWord(h) ==
    HwField("PLATFORM", "platformid", h.cfg.platformid)
    \cup HwField("PLATFORM", "numclusters", h.cfg.numclusters)
    \cup HwField("PLATFORM", "numcores", h.cfg.numcores)
    \cup HwField("PLATFORM", "numwarps", h.cfg.numwarps)
    \cup HwField("PLATFORM", "numthreads", h.cfg.numthreads)

HwDctrlWord(h) ==
    LET run == h.active \ h.halted
        hlt == h.active \cap h.halted
        cause == IF HwWarpsel(h) \in HwWarps(h) THEN h.hacause[HwWarpsel(h)] ELSE 0
    IN  HwFlag("DCTRL", "dmactive", h.dmactive)
        \cup HwFlag("DCTRL", "ndmreset", h.resetbusy > 0)
        \cup HwFlag("DCTRL", "allhalted", h.active # {} /\ run = {})
        \cup HwFlag("DCTRL", "anyhalted", hlt # {})
        \cup HwFlag("DCTRL", "allrunning", h.active # {} /\ hlt = {})
        \cup HwFlag("DCTRL", "anyrunning", run # {})
        \cup HwField("DCTRL", "hacause", cause)
        \cup HwFlag("DCTRL", "injectstate", h.injbusy > 0)
        \cup HwFlag("DCTRL", "stepstate", h.stepbusy > 0)

\* the word a read of DM register reg returns
HwRead(h, reg) ==
    CASE reg = "PLATFORM" -> HwPlatformWord(h)
      [] reg = "DCONFIG"  -> h.dconfig
      [] reg = "DSELECT"  -> h.dselect
      [] reg = "WMASK"    -> IF HwWinsel(h) < HwNumWin(h) THEN h.wmask[HwWinsel(h)] ELSE {}
      [] reg = "WACTIVE"  -> HwWindow(h.active, HwWinsel(h))
      [] reg = "WSTATUS"  -> HwWindow(h.halted, HwWinsel(h))
      [] reg = "DCTRL"    -> HwDctrlWord(h)
      [] reg = "DPC"      -> IF HwWarpsel(h) \in HwWarps(h) THEN h.pc[HwWarpsel(h)] ELSE {}
      [] reg = "DINJECT"  -> h.dinject
      [] reg = "DSCRATCH" -> h.dscratch

\* a read of DCTRL lets a busy request, a reset or a wake-up progress; the
\* DM is active once a pending wake-up has completed
HwAfterRead(h, reg) ==
    IF reg = "DCTRL"
    THEN [h EXCEPT !.injbusy = IF @ > 0 THEN @ - 1 ELSE 0,
                   !.stepbusy = IF @ > 0 THEN @ - 1 ELSE 0,
                   !.resetbusy = IF @ > 0 THEN @ - 1 ELSE 0,
                   !.wakebusy = IF @ > 0 THEN @ - 1 ELSE 0,
                   !.dmactive = @ \/ h.wakebusy = 1]
    ELSE h

HwCsrRead(h, csr) ==
    IF csr = RV_CSR_VX_DSCRATCH THEN h.dscratch
    ELSE IF csr \in DOMAIN h.csr THEN h.csr[csr] ELSE {}

\* a write to a read-only or absent CSR is dropped
HwCsrWrite(h, csr, W) ==
    IF csr = RV_CSR_VX_DSCRATCH THEN [h EXCEPT !.dscratch = W]
    ELSE IF csr \in DOMAIN h.csr /\ csr # RV_CSR_MISA THEN [h EXCEPT !.csr[csr] = W]
    ELSE h

\* the injected instruction executes once in the context of the thread the
\* DSELECT pointer addresses
HwExec(h, ins) ==
    LET th == HwThread(h)
        t0 == h.gpr[th][T0]
    IN  CASE ins.op = "csrw" -> HwCsrWrite(h, ins.csr, h.gpr[th][ins.r])
          [] ins.op = "csrr" -> IF ins.r = 0 THEN h
                                ELSE [h EXCEPT !.gpr[th][ins.r] = HwCsrRead(h, ins.csr)]
          [] ins.op = "lw"   -> [h EXCEPT !.gpr[th][T1] =
                                     IF t0 \in DOMAIN h.mem THEN h.mem[t0] ELSE {}]
          [] ins.op = "sw"   -> IF t0 \in DOMAIN h.mem
                                THEN [h EXCEPT !.mem[t0] = h.gpr[th][T1]] ELSE h
          [] ins.op = "addi" -> [h EXCEPT !.gpr[th][T0] = Add32(t0, Bits(4))]
          [] OTHER -> h

HwInject(h) ==
    IF HwThreadValid(h) /\ HwWarpsel(h) \in h.halted /\ HwThread(h) \in DOMAIN h.gpr
    THEN [HwExec(h, h.dinject) EXCEPT !.injbusy = h.latency]
    ELSE [h EXCEPT !.injbusy = h.latency]

HwStep(h) ==
    IF HwWarpsel(h) \in HwWarps(h) /\ HwWarpsel(h) \in h.halted
    THEN [h EXCEPT !.pc[HwWarpsel(h)] = Add32(@, Bits(4)),
                   !.hacause[HwWarpsel(h)] = 3,
                   !.stepbusy = h.latency]
    ELSE [h EXCEPT !.stepbusy = h.latency]

HwHalt(h) ==
    LET new == (HwMasked(h) \cap h.active) \ h.halted
    IN  [h EXCEPT !.halted = @ \cup new,
                  !.hacause = [w \in HwWarps(h) |-> IF w \in new THEN 2 ELSE @[w]]]

\* the warps of h.stuck do not leave the halted state
HwResume(h) == [h EXCEPT !.halted = @ \ (HwMasked(h) \ h.stuck)]

\* a request bit of DCTRL acts if it is written as 1
HwHaltReq(h, W) == IF 0 \in W THEN HwHalt(h) ELSE h
HwResumeReq(h, W) == IF 1 \in W THEN HwResume(h) ELSE h
HwStepReq(h, W) == IF 3 \in W THEN HwStep(h) ELSE h
HwInjectReq(h, W) == IF 6 \in W THEN HwInject(h) ELSE h

\* DCTRL.dmactive as written: 0 puts the DM to sleep; 1 wakes a sleeping DM
\* after h.wakelat reads of DCTRL (at once if 0, never if negative)
HwActiveReq(h, W) ==
    IF 31 \notin W THEN [h EXCEPT !.dmactive = FALSE, !.wakebusy = 0]
    ELSE IF h.dmactive \/ h.wakebusy > 0 \/ h.wakelat < 0 THEN h
    ELSE IF h.wakelat = 0 THEN [h EXCEPT !.dmactive = TRUE]
    ELSE [h EXCEPT !.wakebusy = h.wakelat]

\* a write of DCTRL: the request bits act, the status bits are read-only
HwDctrlWrite(h, W) ==
    HwInjectReq(HwStepReq(HwResumeReq(HwHaltReq(HwActiveReq(h, W), W), W), W), W)

\* the effect of a write of word W to DM register reg
HwWrite(h, reg, W) ==
    CASE reg = "DCONFIG"  -> [h EXCEPT !.dconfig = W]
      [] reg = "DSELECT"  -> [h EXCEPT !.dselect = W]
      [] reg = "WMASK"    -> IF HwWinsel(h) < HwNumWin(h)
                             THEN [h EXCEPT !.wmask[HwWinsel(h)] = W] ELSE h
      [] reg = "DCTRL"    -> HwDctrlWrite(h, W)
      [] reg = "DPC"      -> IF HwWarpsel(h) \in HwWarps(h)
                             THEN [h EXCEPT !.pc[HwWarpsel(h)] = W] ELSE h
      [] reg = "DINJECT"  -> [h EXCEPT !.dinject = W]
      [] reg = "DSCRATCH" -> [h EXCEPT !.dscratch = W]
      [] OTHER -> h

---------------------------------------------------------------------------
(* The engine's view of one operation in progress: the target, the engine's *)
(* own fields, the return code so far, the out-parameter, and the requests  *)
(* issued to the transport.  faultAt is the index of the request that the   *)
(* debug server answers with a NACK (-1: none).                             *)

\* a packet of the RSP stub: a literal text, or hex digits
Packet(text, hex) == [text |-> text, hex |-> hex]
NoReply == Packet("", <<>>)

\* rcs: the codes the engine returned to the stub; reply: the packet sent
World(faultAt) ==
    [hw |-> hw, st |-> state_, bps |-> breakpoints_, conn |-> transport_,
     retries |-> poll_retries_, rc |-> RCODE_OK, val |-> {}, rdata |-> {},
     status |-> <<>>, data |-> <<>>, log |-> <<>>, faultAt |-> faultAt,
     rcs |-> <<>>, reply |-> NoReply]

\* Call(f, a, w): function f of the engine, or of the transport behind the
\* pointer transport_, called with the arguments a from the world w
RECURSIVE Call(_, _, _)

Req(kind, reg, v, ok) == [k |-> kind, reg |-> reg, v |-> v, ok |-> ok]

\* the answer v to a read request
read_answer(w, reg, v) ==
    [w EXCEPT !.hw = HwAfterRead(@, reg), !.rdata = v,
              !.log = Append(@, Req("r", reg, v, TRUE))]

\* Transport::read_reg
transport_read_reg(w, reg) ==
    IF Len(w.log) = w.faultAt
    THEN [w EXCEPT !.rc = RCODE_ERROR, !.log = Append(@, Req("r", reg, {}, FALSE))]
    ELSE read_answer(w, reg, HwRead(w.hw, reg))

\* Transport::write_reg
transport_write_reg(w, reg, data) ==
    IF Len(w.log) = w.faultAt
    THEN [w EXCEPT !.rc = RCODE_ERROR, !.log = Append(@, Req("w", reg, data, FALSE))]
    ELSE [w EXCEPT !.hw = HwWrite(@, reg, data),
                   !.log = Append(@, Req("w", reg, data, TRUE))]

---------------------------------------------------------------------------
(* Low-level DM register access.                                            *)
(* Every engine operation takes the world it starts from and yields the     *)
(* world it leaves.  Applied to a world whose return code is not RCODE_OK   *)
(* it leaves that world as it is: this is the early return of CHECK_ERR at  *)
(* the call site, so that a sequence of calls is a nested application.      *)

\* CHECK_ERR: the previous call did not return RCODE_OK
Failed(w) == w.rc # RCODE_OK

\* the out-parameter of a call is the field val
KeepVal(w, value) == [w EXCEPT !.val = value]

\* the states of the pointer transport_ and of the transport it points to
TransportConnected == [present |-> TRUE, connected |-> TRUE]
TransportDisconnected == [present |-> TRUE, connected |-> FALSE]
TransportAbsent == [present |-> FALSE, connected |-> FALSE]

\* variant: only the null pointer is caught
TransportDown_nullonly(w) == ~w.conn.present

\* CHECK_TRANSPORT
TransportDown(w) == ~w.conn.present \/ ~w.conn.connected

rd_value(r) == IF Failed(r) THEN r ELSE KeepVal(r, r.rdata)

dmreg_rd(w, reg) ==
    IF Failed(w) THEN w
    ELSE IF TransportDown(w) THEN [w EXCEPT !.rc = RCODE_TRANSPORT_ERR]
    ELSE rd_value(Call("read_reg", [reg |-> reg], w))

dmreg_wr(w, reg, value) ==
    IF Failed(w) THEN w
    ELSE IF TransportDown(w) THEN [w EXCEPT !.rc = RCODE_TRANSPORT_ERR]
    ELSE Call("write_reg", [reg |-> reg, data |-> value], w)

rdfield_value(r, reg, fieldname) ==
    IF Failed(r) THEN r ELSE KeepVal(r, extract_dmreg_field(reg, fieldname, r.rdata))

dmreg_rdfield(w, reg, fieldname) ==
    IF Failed(w) THEN w
    ELSE IF TransportDown(w) THEN [w EXCEPT !.rc = RCODE_TRANSPORT_ERR]
    ELSE IF ~has_dmreg_field(reg, fieldname) THEN [w EXCEPT !.rc = RCODE_INVALID_ARG]
    ELSE rdfield_value(Call("read_reg", [reg |-> reg], w), reg, fieldname)

\* the write that follows the read of the register
wrfield_write(r, reg, fieldname, value) ==
    IF Failed(r) THEN r
    ELSE Call("write_reg",
              [reg |-> reg, data |-> set_dmreg_field(reg, fieldname, r.rdata, value)], r)

dmreg_wrfield(w, reg, fieldname, value) ==
    IF Failed(w) THEN w
    ELSE IF TransportDown(w) THEN [w EXCEPT !.rc = RCODE_TRANSPORT_ERR]
    ELSE IF ~has_dmreg_field(reg, fieldname) THEN [w EXCEPT !.rc = RCODE_INVALID_ARG]
    ELSE wrfield_write(Call("read_reg", [reg |-> reg], w), reg, fieldname, value)

RECURSIVE pollfield_loop(_, _, _, _, _, _, _)

\* the body of the loop after the read
pollfield_check(r, reg, finfo, exp_value, attempt, max_retries) ==
    LET value == Shr(And32(r.rdata, mask(finfo)), finfo.lsb)
    IN  IF Failed(r) THEN r
        ELSE IF value = exp_value THEN KeepVal(r, value)
        ELSE pollfield_loop(r, reg, finfo, exp_value, attempt + 1, max_retries, value)

pollfield_loop(w, reg, finfo, exp_value, attempt, max_retries, value) ==
    IF attempt >= max_retries
    THEN [w EXCEPT !.val = value, !.rc = RCODE_TIMEOUT]
    ELSE pollfield_check(Call("read_reg", [reg |-> reg], w), reg, finfo, exp_value,
                         attempt, max_retries)

\* variant: the loop bound is off by one (attempt <= max_retries)
dmreg_pollfield_offbyone(w, reg, fieldname, exp_value, max_retries) ==
    IF Failed(w) THEN w
    ELSE IF TransportDown(w) THEN [w EXCEPT !.rc = RCODE_TRANSPORT_ERR]
    ELSE IF ~has_dmreg_field(reg, fieldname) THEN [w EXCEPT !.rc = RCODE_INVALID_ARG]
    ELSE pollfield_loop(w, reg, get_dmreg_field(reg, fieldname), exp_value, 0,
                        (IF max_retries = -1 THEN w.retries ELSE max_retries) + 1, {})

\* max_retries = -1 stands for the default, poll_retries_
dmreg_pollfield(w, reg, fieldname, exp_value, max_retries) ==
    IF Failed(w) THEN w
    ELSE IF TransportDown(w) THEN [w EXCEPT !.rc = RCODE_TRANSPORT_ERR]
    ELSE IF ~has_dmreg_field(reg, fieldname) THEN [w EXCEPT !.rc = RCODE_INVALID_ARG]
    ELSE pollfield_loop(w, reg, get_dmreg_field(reg, fieldname), exp_value, 0,
                        IF max_retries = -1 THEN w.retries ELSE max_retries, {})

---------------------------------------------------------------------------
(* Warp selection *)

\* the elements of a sequence
Range(seq) == {seq[i] : i \in DOMAIN seq}

\* variant: the range check admits the id num_total_warps
win_mask_inclusive(w, wids, win) ==
    {wid % 32 : wid \in {x \in Range(wids) :
                            /\ ~(x < 0 \/ x > w.st.platinfo.num_total_warps)
                            /\ x \div 32 = win}}

\* win_masks[win] as built by the loop over wids: out-of-range ids are skipped
win_mask(w, wids, win) ==
    {wid % 32 : wid \in {x \in Range(wids) :
                            /\ ~(x < 0 \/ x >= w.st.platinfo.num_total_warps)
                            /\ x \div 32 = win}}

\* one window: write DSELECT.winsel, then WMASK.mask
select_window(w, wids, i) ==
    dmreg_wrfield(dmreg_wrfield(w, "DSELECT", "winsel", Bits(i)),
                  "WMASK", "mask", win_mask(w, wids, i))

RECURSIVE select_warps_loop(_, _, _, _)
select_warps_loop(w, wids, i, num_win) ==
    IF Failed(w) \/ i >= num_win THEN w
    ELSE select_warps_loop(select_window(w, wids, i), wids, i + 1, num_win)

\* variant: one window more than the warps need when their number is a
\* multiple of 32
select_warps_extra_window(w, wids) ==
    select_warps_loop(w, wids, 0, w.st.platinfo.num_total_warps \div 32 + 1)

\* Backend::select_warps(const std::vector<int> &wids)
select_warps(w, wids) ==
    select_warps_loop(w, wids, 0, (w.st.platinfo.num_total_warps + 31) \div 32)

\* the cache update after the two field writes
select_cache(w, g_wid, tid) ==
    IF Failed(w) THEN w
    ELSE [w EXCEPT !.st.selected_wid = g_wid, !.st.selected_tid = tid]

\* the PC update after the read of DPC; out is the caller's val
select_pc(w, out) ==
    IF Failed(w) THEN w ELSE [w EXCEPT !.st.selected_warp_pc = w.val, !.val = out]

\* variant: the cache is updated, the threadsel field is not written
select_warp_thread_nothreadsel(w, g_wid, tid) ==
    IF Failed(w) THEN w
    ELSE IF g_wid < 0 \/ g_wid >= w.st.platinfo.num_total_warps
    THEN [w EXCEPT !.rc = RCODE_INVALID_ARG]
    ELSE IF tid < 0 \/ tid >= w.st.platinfo.num_threads
    THEN [w EXCEPT !.rc = RCODE_INVALID_ARG]
    ELSE select_pc(
             dmreg_rd(select_cache(dmreg_wrfield(w, "DSELECT", "warpsel", Bits(g_wid)),
                                   g_wid, tid),
                      "DPC"),
             w.val)

\* variant: the range checks admit num_total_warps and num_threads
select_warp_thread_inclusive(w, g_wid, tid) ==
    IF Failed(w) THEN w
    ELSE IF g_wid < 0 \/ g_wid > w.st.platinfo.num_total_warps
    THEN [w EXCEPT !.rc = RCODE_INVALID_ARG]
    ELSE IF tid < 0 \/ tid > w.st.platinfo.num_threads
    THEN [w EXCEPT !.rc = RCODE_INVALID_ARG]
    ELSE select_pc(
             dmreg_rd(select_cache(
                          dmreg_wrfield(dmreg_wrfield(w, "DSELECT", "warpsel", Bits(g_wid)),
                                        "DSELECT", "threadsel", Bits(tid)),
                          g_wid, tid),
                      "DPC"),
             w.val)

\* Backend::select_warp_thread
select_warp_thread(w, g_wid, tid) ==
    IF Failed(w) THEN w
    ELSE IF g_wid < 0 \/ g_wid >= w.st.platinfo.num_total_warps
    THEN [w EXCEPT !.rc = RCODE_INVALID_ARG]
    ELSE IF tid < 0 \/ tid >= w.st.platinfo.num_threads
    THEN [w EXCEPT !.rc = RCODE_INVALID_ARG]
    ELSE select_pc(
             dmreg_rd(select_cache(
                          dmreg_wrfield(dmreg_wrfield(w, "DSELECT", "warpsel", Bits(g_wid)),
                                        "DSELECT", "threadsel", Bits(tid)),
                          g_wid, tid),
                      "DPC"),
             w.val)

\* the cache refresh from the DSELECT word just read
selected_fetch(w) ==
    IF Failed(w) THEN w
    ELSE [w EXCEPT !.st.selected_wid =
                      Val(extract_dmreg_field("DSELECT", "warpsel", w.val)),
                   !.st.selected_tid =
                      Val(extract_dmreg_field("DSELECT", "threadsel", w.val))]

\* the out-parameters <<wid, tid>> from the cache
selected_out(w) ==
    IF Failed(w) THEN w ELSE KeepVal(w, <<w.st.selected_wid, w.st.selected_tid>>)

\* Backend::get_selected_warp_thread
get_selected_warp_thread(w, force_fetch) ==
    IF force_fetch THEN selected_out(selected_fetch(dmreg_rd(w, "DSELECT")))
    ELSE selected_out(w)

---------------------------------------------------------------------------
(* Status queries *)

WarpStatus(wid, active, halted, pc, hacause) ==
    [wid |-> wid, active |-> active, halted |-> halted, pc |-> pc, hacause |-> hacause]

\* select_warp_thread(wid, 0) with its return code ignored
select_unchecked(w, wid) ==
    IF Failed(w) THEN w ELSE [select_warp_thread(w, wid, 0) EXCEPT !.rc = RCODE_OK]

\* pc of one warp: read from DPC if wanted, else 0
status_pc(w, wid, wanted) ==
    IF Failed(w) THEN w
    ELSE IF wanted THEN dmreg_rd(select_unchecked(w, wid), "DPC")
    ELSE KeepVal(w, {})

\* hacause of one warp: read from DCTRL.hacause if wanted, else 0
status_hacause(w, wid, wanted) ==
    IF Failed(w) THEN w
    ELSE IF wanted THEN dmreg_rdfield(select_unchecked(w, wid), "DCTRL", "hacause")
    ELSE KeepVal(w, {})

\* warp_status[wid] = {wid, active, halted, pc, hacause}; hacause is in val
status_put(w, wid, active, halted, pc) ==
    IF Failed(w) THEN w
    ELSE [w EXCEPT !.status = (wid :> WarpStatus(wid, active, halted, pc, w.val)) @@ @]

\* the rest of the loop body once the pc is in val
status_entry(w, wid, active, halted, include_hacause) ==
    status_put(status_hacause(w, wid, active /\ halted /\ include_hacause),
               wid, active, halted, w.val)

\* the body of the loop over the bits of one window
warp_status_bit(w, wid, active, halted, include_pc, include_hacause) ==
    status_entry(status_pc(w, wid, active /\ halted /\ include_pc),
                 wid, active, halted, include_hacause)

RECURSIVE warp_status_bits(_, _, _, _, _, _, _)
warp_status_bits(w, win, bit, wactive, wstatus, include_pc, include_hacause) ==
    IF Failed(w) \/ bit >= 32 \/ win * 32 + bit >= w.st.platinfo.num_total_warps THEN w
    ELSE warp_status_bits(
             warp_status_bit(w, win * 32 + bit, bit \in wactive, bit \in wstatus,
                             include_pc, include_hacause),
             win, bit + 1, wactive, wstatus, include_pc, include_hacause)

\* the loop over the bits once WACTIVE (wactive) and WSTATUS (val) are read
window_scan(w, win, wactive, include_pc, include_hacause) ==
    warp_status_bits(w, win, 0, wactive, w.val, include_pc, include_hacause)

\* the rest of the window once WACTIVE is in val
window_status(w, win, include_pc, include_hacause) ==
    window_scan(dmreg_rd(w, "WSTATUS"), win, w.val, include_pc, include_hacause)

RECURSIVE warp_status_wins(_, _, _, _, _)
warp_status_wins(w, win, num_wins, include_pc, include_hacause) ==
    IF Failed(w) \/ win >= num_wins THEN w
    ELSE warp_status_wins(
             window_status(dmreg_rd(dmreg_wrfield(w, "DSELECT", "winsel", Bits(win)),
                                    "WACTIVE"),
                           win, include_pc, include_hacause),
             win + 1, num_wins, include_pc, include_hacause)

\* the restore at the end: only if a thread was selected at entry
restore_selection(w, saved_wid, saved_tid) ==
    IF saved_wid >= 0 /\ saved_tid >= 0
    THEN select_warp_thread(w, saved_wid, saved_tid)
    ELSE w

\* Backend::get_warp_status; the out-parameter warp_status is the field status
get_warp_status(w, include_pc, include_hacause) ==
    KeepVal(restore_selection(
                warp_status_wins([w EXCEPT !.status = <<>>], 0,
                                 (w.st.platinfo.num_total_warps + 31) \div 32,
                                 include_pc, include_hacause),
                w.st.selected_wid, w.st.selected_tid),
            w.val)

---------------------------------------------------------------------------
(* Instruction injection, CSR access *)

\* CHECK_SELECTED
NoneSelected(w) == w.st.selected_wid < 0 \/ w.st.selected_tid < 0

\* variant: the request is sent before the instruction word is written
inject_instruction_req_first(w, instruction) ==
    IF Failed(w) THEN w
    ELSE IF NoneSelected(w) THEN [w EXCEPT !.rc = RCODE_NONESELECTED_ERR]
    ELSE KeepVal(dmreg_pollfield(
                     dmreg_wr(dmreg_wrfield(w, "DCTRL", "injectreq", Bits(1)),
                              "DINJECT", instruction),
                     "DCTRL", "injectstate", {}, -1),
                 w.val)

\* Backend::inject_instruction(uint32_t); the string overload assembles one
\* line and injects the word
inject_instruction(w, instruction) ==
    IF Failed(w) THEN w
    ELSE IF NoneSelected(w) THEN [w EXCEPT !.rc = RCODE_NONESELECTED_ERR]
    ELSE KeepVal(dmreg_pollfield(
                     dmreg_wrfield(dmreg_wr(w, "DINJECT", instruction),
                                   "DCTRL", "injectreq", Bits(1)),
                     "DCTRL", "injectstate", {}, -1),
                 w.val)

\* save a register through DSCRATCH: inject csrw dscratch, r; read DSCRATCH
save_reg(w, r) ==
    dmreg_rd(inject_instruction(w, asm_csrw(RV_CSR_VX_DSCRATCH, r)), "DSCRATCH")

\* load a register through DSCRATCH: write DSCRATCH; inject csrr r, dscratch
load_reg(w, r, value) ==
    inject_instruction(dmreg_wr(w, "DSCRATCH", value), asm_csrr(r, RV_CSR_VX_DSCRATCH))

\* the end of read_csr: the value read is in val; restore t0
read_csr_value(w, t0_val, out) ==
    IF Failed(w) THEN KeepVal(w, out) ELSE KeepVal(load_reg(w, T0, t0_val), w.val)

\* read_csr once t0 is saved (in val); out is the caller's value
read_csr_saved(w, regaddr, out) ==
    read_csr_value(
        dmreg_rd(inject_instruction(inject_instruction(w, asm_csrr(T0, regaddr)),
                                    asm_csrw(RV_CSR_VX_DSCRATCH, T0)),
                 "DSCRATCH"),
        w.val, out)

\* Backend::read_csr; the out-parameter value is the field val
read_csr(w, regaddr) == read_csr_saved(save_reg(w, T0), regaddr, w.val)

\* write_csr once t0 is saved (in val)
write_csr_saved(w, regaddr, value, out) ==
    KeepVal(load_reg(inject_instruction(load_reg(w, T0, value), asm_csrw(regaddr, T0)),
                     T0, w.val),
            out)

\* Backend::write_csr
write_csr(w, regaddr, value) == write_csr_saved(save_reg(w, T0), regaddr, value, w.val)

---------------------------------------------------------------------------
(* Memory access.  A byte vector is a sequence of naturals below 256; the   *)
(* host is little-endian, so bytes[i] of a WordBytes_t is bits 8i..8i+7.     *)

\* WordBytes_t: word -> bytes and bytes -> word
WordBytes(W) == [i \in 1..4 |-> Val({b - 8 * (i - 1) : b \in {x \in W : (x \div 8) = i - 1}})]
BytesWord(bytes) == UNION {Shl(Bits(bytes[i]), 8 * (i - 1)) : i \in 1..4}

\* variant: the other bytes of the word are lost
SetByte_clobber(W, i, b) == Shl(Bits(b), 8 * i)

\* value.bytes[i] = b
SetByte(W, i, b) == {x \in W : (x \div 8) # i} \cup Shl(Bits(b), 8 * i)

\* addr & ~0x3 and addr % 4
AlignDown(A) == And32(A, Not32(Bits(3)))
Mod4(A) == Val(And32(A, Bits(3)))

Min(a, b) == IF a < b THEN a ELSE b

\* std::memcpy(&data[i], &rword, sizeof(rword)); rword is in val
copy_word(w, i) ==
    IF Failed(w) THEN w
    ELSE [w EXCEPT !.data = [k \in DOMAIN @ |->
                                IF i < k /\ k <= i + 4 THEN WordBytes(w.val)[k - i]
                                ELSE @[k]]]

\* read the word at t0 into the debugger: lw t1, 0(t0); csrw dscratch, t1;
\* read DSCRATCH
fetch_word(w) ==
    dmreg_rd(inject_instruction(inject_instruction(w, asm_lw_t1_t0),
                                asm_csrw(RV_CSR_VX_DSCRATCH, T1)),
             "DSCRATCH")

\* the read loop: fetch the word at t0; addi t0, t0, 4; copy the word into the
\* buffer
RECURSIVE read_mem_loop(_, _, _)
read_mem_loop(w, i, size_in_bytes) ==
    IF Failed(w) \/ i >= size_in_bytes THEN w
    ELSE read_mem_loop(copy_word(inject_instruction(fetch_word(w), asm_addi_t0_4), i),
                       i + 4, size_in_bytes)

\* the trim at the end: drop head_offset leading bytes, cut to nbytes
trim(w, head_offset, nbytes) ==
    IF Failed(w) THEN w
    ELSE [w EXCEPT !.data = SubSeq(@, head_offset + 1, Min(Len(@), head_offset + nbytes))]

\* the aligned range that covers [addr, addr + nbytes)
read_start(addr) == AlignDown(addr)
read_end(addr, nbytes) == AlignDown(Add32(Add32(addr, Bits(nbytes)), Bits(3)))
read_size(addr, nbytes) == Val(Sub32(read_end(addr, nbytes), read_start(addr)))

\* read_mem once t0 and t1 are saved (t1 in val): set t0, loop, restore, trim
read_mem_t1(w, t0_val, addr, nbytes, out) ==
    KeepVal(trim(load_reg(load_reg(read_mem_loop(load_reg(w, T0, read_start(addr)), 0,
                                                 read_size(addr, nbytes)),
                                   T0, t0_val),
                          T1, w.val),
                 Val(Sub32(addr, read_start(addr))), nbytes),
            out)

\* read_mem once t0 is saved (in val)
read_mem_t0(w, addr, nbytes, out) ==
    read_mem_t1(save_reg(w, T1), w.val, addr, nbytes, out)

\* Backend::read_mem; the out-parameter data is the field data
read_mem(w, addr, nbytes) ==
    IF Failed(w) \/ nbytes = 0 THEN w
    ELSE read_mem_t0(
             save_reg([w EXCEPT !.data = [k \in 1..read_size(addr, nbytes) |-> 0]], T0),
             addr, nbytes, w.val)

\* value.bytes[first + k] = data[idx + k] for k in 0..take-1
RECURSIVE PatchBytes(_, _, _, _, _)
PatchBytes(W, first, take, data, idx) ==
    IF take = 0 THEN W
    ELSE PatchBytes(SetByte(W, first, data[idx + 1]), first + 1, take - 1, data, idx + 1)

\* write a word at t0: write DSCRATCH; csrr t1, dscratch; sw t1, 0(t0)
store_word(w, word) == inject_instruction(load_reg(w, T1, word), asm_sw_t1_t0)

\* the word fetched is in val: patch it and store it back
store_patched(w, first, take, data, idx) ==
    IF Failed(w) THEN w
    ELSE store_word(w, PatchBytes(w.val, first, take, data, idx))

\* variant: the patch starts at byte 0 whatever the offset of the address
write_partial_head0(w, base, first, take, data, idx) ==
    store_patched(fetch_word(load_reg(w, T0, base)), 0, take, data, idx)

\* a partial word: synchronise t0, fetch the word, patch take bytes from
\* byte first on, store it back
write_partial(w, base, first, take, data, idx) ==
    store_patched(fetch_word(load_reg(w, T0, base)), first, take, data, idx)

\* (end_addr - cur) >= 4 on uint32_t
FullWordLeft(end_addr, cur) == Sub32(end_addr, cur) \ Bits(3) # {}

\* the loop over the full words; it leaves <<cur, idx>> in the field val
RECURSIVE write_mem_loop(_, _, _, _, _)
write_mem_loop(w, data, cur, idx, end_addr) ==
    IF Failed(w) THEN w
    ELSE IF ~FullWordLeft(end_addr, cur) THEN KeepVal(w, <<cur, idx>>)
    ELSE write_mem_loop(
             inject_instruction(store_word(w, BytesWord([k \in 1..4 |-> data[idx + k]])),
                                asm_addi_t0_4),
             data, Add32(cur, Bits(4)), idx + 4, end_addr)

\* bytes of the leading partial word; the end of the range
head_take(addr, data) == IF Mod4(addr) # 0 THEN Min(4 - Mod4(addr), Len(data)) ELSE 0
write_end(addr, data) == Add32(addr, Bits(Len(data)))

\* the leading partial word, if addr is not word-aligned
write_head(w, addr, data) ==
    IF Failed(w) THEN w
    ELSE IF Mod4(addr) # 0
    THEN write_partial(w, AlignDown(addr), Mod4(addr), head_take(addr, data), data, 0)
    ELSE w

\* the middle full words from cur on; it leaves <<cur, idx>> in the field val
write_middle(w, data, cur, idx, end_addr) ==
    IF Failed(w) THEN w
    ELSE IF FullWordLeft(end_addr, cur)
    THEN write_mem_loop(load_reg(w, T0, cur), data, cur, idx, end_addr)
    ELSE KeepVal(w, <<cur, idx>>)

\* the trailing partial word, if cur < end_addr; <<cur, idx>> is in the field val
write_tail(w, data, end_addr) ==
    IF Failed(w) THEN w
    ELSE IF Lt32(w.val[1], end_addr)
    THEN write_partial(w, AlignDown(w.val[1]), 0, Val(Sub32(end_addr, w.val[1])),
                       data, w.val[2])
    ELSE w

\* the three phases of the write
write_body(w, addr, data) ==
    write_tail(write_middle(write_head(w, addr, data), data,
                            Add32(addr, Bits(head_take(addr, data))),
                            head_take(addr, data), write_end(addr, data)),
               data, write_end(addr, data))

\* write_mem once t0 and t1 are saved (t1 in val): write, restore t0 and t1
write_mem_t1(w, t0_val, addr, data, out) ==
    KeepVal(load_reg(load_reg(write_body(w, addr, data), T0, t0_val), T1, w.val), out)

\* write_mem once t0 is saved (in val)
write_mem_t0(w, addr, data, out) ==
    write_mem_t1(save_reg(w, T1), w.val, addr, data, out)

\* Backend::write_mem
write_mem(w, addr, data) ==
    IF Failed(w) \/ Len(data) = 0 THEN w
    ELSE write_mem_t0(save_reg(w, T0), addr, data, w.val)

---------------------------------------------------------------------------
(* Software breakpoints *)

BreakPointInfo(addr, replaced_instr) ==
    [enabled |-> TRUE, addr |-> addr, replaced_instr |-> replaced_instr, hit_count |-> 0]

bp_exists(w, addr) == addr \in DOMAIN w.bps /\ w.bps[addr].enabled

\* breakpoints_[addr] = {true, addr, replaced_instr, 0}
bp_record(w, addr, replaced_instr) ==
    IF Failed(w) THEN w
    ELSE [w EXCEPT !.bps = (addr :> BreakPointInfo(addr, replaced_instr)) @@ @]

\* the original word is in data: write ebreak over it, record the breakpoint
bp_insert(w, addr) ==
    IF Failed(w) THEN w
    ELSE bp_record(write_mem(w, addr, WordBytes(asm_ebreak)), addr, BytesWord(w.data))

\* variant: no early return when the breakpoint is already set
set_breakpoint_again(w, addr) == bp_insert(read_mem(w, addr, 4), addr)

\* Backend::set_breakpoint
set_breakpoint(w, addr) ==
    IF bp_exists(w, addr) THEN w ELSE bp_insert(read_mem(w, addr, 4), addr)

\* breakpoints_.erase(addr)
bp_erase(w, addr) ==
    IF Failed(w) THEN w ELSE [w EXCEPT !.bps = [a \in (DOMAIN @) \ {addr} |-> @[a]]]

\* variant: the entry is erased, the original word is not written back
remove_breakpoint_norestore(w, addr) ==
    IF ~bp_exists(w, addr) THEN w ELSE bp_erase(w, addr)

\* Backend::remove_breakpoint
remove_breakpoint(w, addr) ==
    IF ~bp_exists(w, addr) THEN w
    ELSE bp_erase(write_mem(w, addr, WordBytes(w.bps[addr].replaced_instr)), addr)

---------------------------------------------------------------------------
(* Waking the debug module *)

DMWAKE_ATTEMPT_RETRIES == 3

\* "if (ndmreset)": wait for DCTRL.ndmreset to clear
wake_reset(r) ==
    IF Failed(r) THEN r
    ELSE IF r.val # {} THEN dmreg_pollfield(r, "DCTRL", "ndmreset", {}, -1)
    ELSE r

RECURSIVE wake_loop(_, _)

\* "while(!dmactive && dmwake_attempt_retries-- > 0)": r.val is dmactive;
\* either CHECK_ERR of the body ends the operation
wake_loop(r, dmwake_attempt_retries) ==
    IF Failed(r) THEN r
    ELSE IF r.val # {} \/ dmwake_attempt_retries <= 0 THEN r
    ELSE wake_loop(dmreg_pollfield(dmreg_wrfield(r, "DCTRL", "dmactive", {0}),
                                   "DCTRL", "dmactive", {0}, -1),
                   dmwake_attempt_retries - 1)

\* the final "if (!dmactive) return RCODE_ERROR"
wake_end(r) ==
    IF Failed(r) THEN r
    ELSE IF r.val = {} THEN [r EXCEPT !.rc = RCODE_ERROR]
    ELSE r

wake_dmactive(r) ==
    IF Failed(r) THEN r
    ELSE wake_end(wake_loop(dmreg_rdfield(r, "DCTRL", "dmactive"),
                            DMWAKE_ATTEMPT_RETRIES))

wake_dm(w) == wake_dmactive(wake_reset(dmreg_rdfield(w, "DCTRL", "ndmreset")))

---------------------------------------------------------------------------
(* The selected thread: PC, step, halt cause, GPRs *)

\* Backend::get_warp_summary: the flags are fields of the word read
get_warp_summary(w) == dmreg_rd(w, "DCTRL")

\* variant: the PC is read without a look at the pointer
get_warp_pc_unchecked(w) == dmreg_rd(w, "DPC")

\* Backend::get_warp_pc; the out-parameter pc is val
get_warp_pc(w) ==
    IF Failed(w) THEN w
    ELSE IF NoneSelected(w) THEN [w EXCEPT !.rc = RCODE_NONESELECTED_ERR]
    ELSE dmreg_rd(w, "DPC")

\* Backend::set_warp_pc
set_warp_pc(w, pc) ==
    IF Failed(w) THEN w
    ELSE IF NoneSelected(w) THEN [w EXCEPT !.rc = RCODE_NONESELECTED_ERR]
    ELSE dmreg_wr(w, "DPC", pc)

\* "state_.selected_warp_pc = warp_pc" after the read of DPC
step_pc(r) == IF Failed(r) THEN r ELSE [r EXCEPT !.st.selected_warp_pc = r.val]

\* variant: DPC is read right after the step request, without the poll
step_warp_nopoll(w) ==
    IF Failed(w) THEN w
    ELSE IF NoneSelected(w) THEN [w EXCEPT !.rc = RCODE_NONESELECTED_ERR]
    ELSE KeepVal(step_pc(dmreg_rd(dmreg_wrfield(get_warp_summary(w),
                                                "DCTRL", "stepreq", {0}),
                                  "DPC")),
                 w.val)

\* Backend::step_warp
step_warp(w) ==
    IF Failed(w) THEN w
    ELSE IF NoneSelected(w) THEN [w EXCEPT !.rc = RCODE_NONESELECTED_ERR]
    ELSE KeepVal(step_pc(dmreg_rd(dmreg_pollfield(dmreg_wrfield(get_warp_summary(w),
                                                                "DCTRL", "stepreq", {0}),
                                                  "DCTRL", "stepstate", {}, -1),
                                  "DPC")),
                 w.val)

\* Backend::get_halt_cause: the field is named "cause" in the call
get_halt_cause(w) ==
    IF Failed(w) THEN w
    ELSE IF NoneSelected(w) THEN [w EXCEPT !.rc = RCODE_NONESELECTED_ERR]
    ELSE dmreg_rdfield(w, "DCTRL", "cause")

\* variant: the instruction is not injected
write_gpr_noinject(w, regnum, value) == dmreg_wr(w, "DSCRATCH", value)

\* Backend::read_gpr; the out-parameter value is val
read_gpr(w, regnum) ==
    dmreg_rd(inject_instruction(w, asm_csrw(RV_CSR_VX_DSCRATCH, regnum)), "DSCRATCH")

\* Backend::write_gpr
write_gpr(w, regnum, value) ==
    inject_instruction(dmreg_wr(w, "DSCRATCH", value), asm_csrr(regnum, RV_CSR_VX_DSCRATCH))

---------------------------------------------------------------------------
(* Warp control: halt and resume *)

\* "halted = ((wstatus >> bit_pos) & 0x1)" after the read of WSTATUS
warp_state_bit(r, bit_pos) ==
    IF Failed(r) THEN r ELSE KeepVal(r, IF bit_pos \in r.val THEN {0} ELSE {})

\* Backend::get_warp_state; the out-parameter halted is val
get_warp_state(w, g_wid) ==
    IF Failed(w) THEN w
    ELSE IF g_wid < 0 \/ g_wid >= w.st.platinfo.num_total_warps
    THEN [w EXCEPT !.rc = RCODE_INVALID_ARG]
    ELSE warp_state_bit(dmreg_rd(dmreg_wrfield(w, "DSELECT", "winsel", Bits(g_wid \div 32)),
                                 "WSTATUS"),
                        g_wid % 32)

RECURSIVE verify_loop(_, _, _, _, _)

\* the body of the verification loop after get_warp_state; expect is the
\* state every listed warp should be in
verify_check(r, wids, k, ok, expect) ==
    IF Failed(r) THEN r
    ELSE verify_loop(r, wids, k + 1, ok /\ r.val = expect, expect)

\* "for (int wid : wids)" and the "if (!ok) return RCODE_ERROR" after it
verify_loop(w, wids, k, ok, expect) ==
    IF k > Len(wids)
    THEN IF ok THEN w ELSE [w EXCEPT !.rc = RCODE_ERROR]
    ELSE verify_check(get_warp_state(w, wids[k]), wids, k, ok, expect)

\* the verification, from the world r left by the request
verify_warps(r, wids, expect) ==
    IF Failed(r) THEN r ELSE verify_loop(r, wids, 1, TRUE, expect)

\* variant: the halt request is not verified
halt_warps_noverify(w, wids) ==
    dmreg_wrfield(select_warps(w, wids), "DCTRL", "haltreq", {0})

\* Backend::halt_warps(const std::vector<int> &wids)
halt_warps(w, wids) ==
    verify_warps(dmreg_wrfield(select_warps(w, wids), "DCTRL", "haltreq", {0}),
                 wids, {0})

\* the local warp_status of resume_warps is dropped
resume_status(r, status) == [r EXCEPT !.status = status]

\* Backend::resume_warps(const std::vector<int> &wids)
resume_warps(w, wids) ==
    verify_warps(resume_status(get_warp_status(dmreg_wrfield(select_warps(w, wids),
                                                             "DCTRL", "resumereq", {0}),
                                               FALSE, TRUE),
                               w.status),
                 wids, {})

---------------------------------------------------------------------------
(* Platform discovery *)

\* state_.platinfo as fetch_platform_info decodes it from the PLATFORM word
platinfo_of(platform) ==
    LET num_clusters == Val(extract_dmreg_field("PLATFORM", "numclusters", platform))
        num_cores == Val(extract_dmreg_field("PLATFORM", "numcores", platform))
        num_warps == Val(extract_dmreg_field("PLATFORM", "numwarps", platform))
        num_threads == 2^Val(extract_dmreg_field("PLATFORM", "numthreads", platform))
    IN  [platform_id |-> Val(extract_dmreg_field("PLATFORM", "platformid", platform)),
         num_clusters |-> num_clusters, num_cores |-> num_cores,
         num_warps |-> num_warps, num_threads |-> num_threads,
         num_total_cores |-> num_clusters * num_cores,
         num_total_warps |-> num_clusters * num_cores * num_warps,
         num_total_threads |-> num_clusters * num_cores * num_warps * num_threads,
         misa |-> {}]

\* the fields of state_.platinfo decoded from the PLATFORM word in val; misa
\* is not assigned yet
fpi_info(r) ==
    IF Failed(r) THEN r
    ELSE [r EXCEPT !.st.platinfo = [platinfo_of(r.val) EXCEPT !.misa = r.st.platinfo.misa]]

\* "if (!w0_is_halted) halt_warps({0})"
fpi_halt(r, w0_is_halted) ==
    IF Failed(r) \/ w0_is_halted THEN r ELSE halt_warps(r, <<0>>)

\* "state_.platinfo.misa = misa"
fpi_misa(r) == IF Failed(r) THEN r ELSE [r EXCEPT !.st.platinfo.misa = r.val]

\* variant: warp 0 is resumed whether or not it was running
fpi_resume_always(r, w0_is_halted) ==
    IF Failed(r) THEN r ELSE resume_warps(r, <<0>>)

\* "if (!w0_is_halted) resume_warps({0})"
fpi_resume(r, w0_is_halted) ==
    IF Failed(r) \/ w0_is_halted THEN r ELSE resume_warps(r, <<0>>)

\* the state of warp 0 is in val: halt, read MISA, resume
fpi_probe(r) ==
    IF Failed(r) THEN r
    ELSE fpi_resume(fpi_misa(read_csr(fpi_halt(r, r.val = {0}), RV_CSR_MISA)), r.val = {0})

\* the selection saved at entry is restored
fpi_restore(r, saved, selected_wid, selected_tid) ==
    IF Failed(r) \/ ~saved THEN r ELSE select_warp_thread(r, selected_wid, selected_tid)

\* Backend::fetch_platform_info
fetch_platform_info(w) ==
    fpi_restore(fpi_probe(get_warp_state(select_warp_thread(fpi_info(dmreg_rd(w, "PLATFORM")),
                                                            0, 0),
                                         0)),
                ~NoneSelected(w), w.st.selected_wid, w.st.selected_tid)

---------------------------------------------------------------------------
(* Strings of the RSP stub: sequences of the byte values 0..255 *)

IsHex(c) == c \in (48..57) \cup (97..102) \cup (65..70)
HexVal(c) == IF c <= 57 THEN c - 48 ELSE IF c >= 97 THEN c - 87 ELSE c - 55

\* strtol(str, nullptr, 16): white space, a sign, "0x", then the digits up to
\* the first character that is not one
IsSpace(c) == c = 32 \/ c \in 9..13

RECURSIVE strtol_digits(_, _)
strtol_digits(str, acc) ==
    IF str = <<>> \/ ~IsHex(Head(str)) THEN acc
    ELSE strtol_digits(Tail(str), 16 * acc + HexVal(Head(str)))

strtol_prefix(str) ==
    IF Len(str) >= 3 /\ str[1] = 48 /\ str[2] \in {120, 88} /\ IsHex(str[3])
    THEN strtol_digits(SubSeq(str, 3, Len(str)), 0)
    ELSE strtol_digits(str, 0)

strtol_sign(str) ==
    IF str # <<>> /\ Head(str) = 45 THEN 0 - strtol_prefix(Tail(str))
    ELSE IF str # <<>> /\ Head(str) = 43 THEN strtol_prefix(Tail(str))
    ELSE strtol_prefix(str)

RECURSIVE strtol16(_)
strtol16(str) == IF str # <<>> /\ IsSpace(Head(str)) THEN strtol16(Tail(str)) ELSE strtol_sign(str)

\* the digits of strtoul, shifted into a uint32_t (the conversion of the
\* unsigned long to uint32_t keeps the low 32 bits)
RECURSIVE strtoul_digits(_, _)
strtoul_digits(str, acc) ==
    IF str = <<>> \/ ~IsHex(Head(str)) THEN acc
    ELSE strtoul_digits(Tail(str), Or32(Shl(acc, 4), Bits(HexVal(Head(str)))))

strtoul_prefix(str) ==
    IF Len(str) >= 3 /\ str[1] = 48 /\ str[2] \in {120, 88} /\ IsHex(str[3])
    THEN strtoul_digits(SubSeq(str, 3, Len(str)), {})
    ELSE strtoul_digits(str, {})

strtoul_sign(str) ==
    IF str # <<>> /\ Head(str) = 45 THEN Sub32({}, strtoul_prefix(Tail(str)))
    ELSE IF str # <<>> /\ Head(str) = 43 THEN strtoul_prefix(Tail(str))
    ELSE strtoul_prefix(str)

\* static_cast<uint32_t>(strtoul(str, nullptr, 16)) of a number of up to
\* sixteen digits
RECURSIVE strtoul16(_)
strtoul16(str) == IF str # <<>> /\ IsSpace(Head(str)) THEN strtoul16(Tail(str)) ELSE strtoul_sign(str)

\* str.find(c): the first position (from 0) of c in str, -1 for npos
find(str, c) ==
    IF \A i \in DOMAIN str : str[i] # c THEN -1
    ELSE (CHOOSE i \in DOMAIN str : str[i] = c /\ \A j \in 1..(i - 1) : str[j] # c) - 1

starts_with(str, prefix) ==
    Len(prefix) <= Len(str) /\ SubSeq(str, 1, Len(prefix)) = prefix

\* str.substr(pos, n) for pos <= size
substr(str, pos, n) ==
    SubSeq(str, pos + 1, IF pos + n > Len(str) THEN Len(str) ELSE pos + n)

---------------------------------------------------------------------------
(* The RSP stub: command handlers *)

\* Exposed CSRs
CSR_LIST == <<4034, 4033, 4032, 3266, 3265, 3264, 3267, 3268, 4035>>

swap_endianess32(W) == {8 * (3 - (b \div 8)) + (b % 8) : b \in W}

\* strfmt("%08x", v): eight hex digits, the most significant first
Hex8(W) == [k \in 1..8 |-> Val(And32(Shr(W, 32 - 4 * k), Bits(15)))]

\* strfmt("%02x", byte) for every byte of data
HexBytes(data) ==
    [k \in 1..(2 * Len(data)) |->
        IF k % 2 = 1 THEN data[(k + 1) \div 2] \div 16 ELSE data[k \div 2] % 16]

\* the engine call returns to the handler: its code is the handler's to look
\* at, and the handler goes on
stub_rc(r) == [r EXCEPT !.rcs = Append(@, r.rc), !.rc = RCODE_OK]

LastRc(r) == r.rcs[Len(r.rcs)]

send_packet(r, text, hex) == [r EXCEPT !.reply = Packet(text, hex)]

\* the end of cmd_read_reg: the value is sent, the code is not looked at
read_reg_send(r) == send_packet(r, "", Hex8(swap_endianess32(r.val)))

\* GDBStub::cmd_read_reg ('p'); regval starts as 0
cmd_read_reg(w, reg_idx) ==
    IF reg_idx < 32 THEN read_reg_send(stub_rc(read_gpr(w, reg_idx)))
    ELSE IF reg_idx = 32 THEN read_reg_send(stub_rc(get_warp_pc(w)))
    ELSE IF reg_idx >= 33 /\ reg_idx < 33 + Len(CSR_LIST)
    THEN read_reg_send(stub_rc(read_csr(w, CSR_LIST[reg_idx - 32])))
    ELSE send_packet(w, "E02", <<>>)

\* send_packet(rc == RCODE_OK ? "OK" : err)
rc_send(r, err) == send_packet(r, IF LastRc(r) = RCODE_OK THEN "OK" ELSE err, <<>>)

\* GDBStub::cmd_write_reg ('P'); val is the number the packet spells
cmd_write_reg(w, reg_idx, val) ==
    IF reg_idx < 32 THEN rc_send(stub_rc(write_gpr(w, reg_idx, swap_endianess32(val))), "E03")
    ELSE IF reg_idx = 32 THEN rc_send(stub_rc(set_warp_pc(w, swap_endianess32(val))), "E03")
    ELSE IF reg_idx >= 33 /\ reg_idx < 33 + Len(CSR_LIST) THEN send_packet(w, "E03", <<>>)
    ELSE send_packet(w, "E01", <<>>)

\* the end of cmd_read_mem
read_mem_send(r) ==
    IF LastRc(r) # RCODE_OK THEN send_packet(r, "E01", <<>>)
    ELSE send_packet(r, "", HexBytes(r.data))

\* GDBStub::cmd_read_mem ('m')
cmd_read_mem(w, addr, length) == read_mem_send(stub_rc(read_mem(w, addr, length)))

\* the bytes that the hex string data_str spells, two characters a byte; a
\* last single character makes a byte too
write_mem_data(data_str) ==
    [k \in 1..((Len(data_str) + 1) \div 2) |->
        strtol16(substr(data_str, 2 * (k - 1), 2)) % 256]

\* the comparison of data.size() with length, then the write
write_mem_checked(w, addr, length, data) ==
    IF Bits(Len(data)) # length THEN send_packet(w, "E02", <<>>)
    ELSE rc_send(stub_rc(write_mem(w, addr, data)), "E03")

write_mem_args(w, addr_length_str, data_str, comma_pos) ==
    IF comma_pos < 0 THEN send_packet(w, "E01", <<>>)
    ELSE write_mem_checked(w, strtoul16(SubSeq(addr_length_str, 1, comma_pos)),
                           strtoul16(SubSeq(addr_length_str, comma_pos + 2,
                                            Len(addr_length_str))),
                           write_mem_data(data_str))

write_mem_split(w, args, colon_pos) ==
    IF colon_pos < 0 THEN send_packet(w, "E01", <<>>)
    ELSE write_mem_args(w, SubSeq(args, 1, colon_pos),
                        SubSeq(args, colon_pos + 2, Len(args)),
                        find(SubSeq(args, 1, colon_pos), 44))

\* GDBStub::cmd_write_mem ('M'); cmdstr is the command as received
cmd_write_mem(w, cmdstr) == write_mem_split(w, Tail(cmdstr), find(Tail(cmdstr), 58))

\* "if (!args.empty()) backend_->set_warp_pc(addr)": the code is dropped
step_addr(w, args) == IF args = <<>> THEN w ELSE stub_rc(set_warp_pc(w, args[1]))

step_send(r) == send_packet(r, IF LastRc(r) # RCODE_OK THEN "E01" ELSE "S05", <<>>)

\* GDBStub::cmd_step ('s'); args is empty or holds the address
cmd_step(w, args) == step_send(stub_rc(step_warp(step_addr(w, args))))

\* GDBStub::cmd_thread_select ('Hc', 'Hg'); thread_map_ maps the id
\* 1 + wid * num_threads + l_tid to (wid, l_tid)
cmd_thread_select(w, tid) ==
    IF tid < 1 \/ tid > w.st.platinfo.num_total_warps * w.st.platinfo.num_threads
    THEN send_packet(w, "E01", <<>>)
    ELSE rc_send(stub_rc(select_warp_thread(w, (tid - 1) \div w.st.platinfo.num_threads,
                                            (tid - 1) % w.st.platinfo.num_threads)),
                 "E02")

---------------------------------------------------------------------------
(* The functions of the engine and of the transport, by name *)

Call(f, a, w) ==
    CASE f = "read_reg" -> transport_read_reg(w, a.reg)
      [] f = "write_reg" -> transport_write_reg(w, a.reg, a.data)
      [] f = "dmreg_rd" -> dmreg_rd(w, a.reg)
      [] f = "dmreg_wr" -> dmreg_wr(w, a.reg, a.value)
      [] f = "dmreg_rdfield" -> dmreg_rdfield(w, a.reg, a.field)
      [] f = "dmreg_wrfield" -> dmreg_wrfield(w, a.reg, a.field, a.value)
      [] f = "dmreg_pollfield" ->
             dmreg_pollfield(w, a.reg, a.field, a.exp_value, a.max_retries)
      [] f = "select_warps" -> select_warps(w, a.wids)
      [] f = "select_warp_thread" -> select_warp_thread(w, a.g_wid, a.tid)
      [] f = "get_selected_warp_thread" -> get_selected_warp_thread(w, a.force_fetch)
      [] f = "get_warp_status" -> get_warp_status(w, a.include_pc, a.include_hacause)
      [] f = "read_csr" -> read_csr(w, a.regaddr)
      [] f = "write_csr" -> write_csr(w, a.regaddr, a.value)
      [] f = "read_mem" -> read_mem(w, a.addr, a.n)
      [] f = "read_mem_buf" -> read_mem([w EXCEPT !.data = a.buf], a.addr, a.n)
      [] f = "write_mem" -> write_mem(w, a.addr, a.data)
      [] f = "set_breakpoint" -> set_breakpoint(w, a.addr)
      [] f = "remove_breakpoint" -> remove_breakpoint(w, a.addr)
      [] f = "wake_dm" -> wake_dm(w)
      [] f = "cmd_read_reg" -> cmd_read_reg(w, a.reg_idx)
      [] f = "cmd_write_reg" -> cmd_write_reg(w, a.reg_idx, a.val)
      [] f = "cmd_read_mem" -> cmd_read_mem(w, a.addr, a.length)
      [] f = "cmd_write_mem" -> cmd_write_mem(w, a.cmdstr)
      [] f = "cmd_step" -> cmd_step(w, a.args)
      [] f = "cmd_thread_select" -> cmd_thread_select(w, a.tid)
      [] f = "fetch_platform_info" -> fetch_platform_info(w)
      [] f = "get_warp_pc" -> get_warp_pc(w)
      [] f = "set_warp_pc" -> set_warp_pc(w, a.pc)
      [] f = "step_warp" -> step_warp(w)
      [] f = "get_halt_cause" -> get_halt_cause(w)
      [] f = "inject_instruction" -> inject_instruction(w, a.instruction)
      [] f = "read_gpr" -> read_gpr(w, a.regnum)
      [] f = "write_gpr" -> write_gpr(w, a.regnum, a.value)
      [] f = "halt_warps" -> halt_warps(w, a.wids)
      [] f = "resume_warps" -> resume_warps(w, a.wids)

---------------------------------------------------------------------------
(* Platforms and initial states *)

Cfg(numwarps) ==
    [platformid |-> 1, numclusters |-> 1, numcores |-> 1, numwarps |-> numwarps,
     numthreads |-> 1]

SmallCfg == Cfg(2)
BigCfg == Cfg(BigNumWarps)

CfgWarps(cfg) == 0..(cfg.numclusters * cfg.numcores * cfg.numwarps - 1)
CfgThreads(cfg) == 0..(2^(cfg.numthreads) - 1)

\* the registers tracked: x0 (hardwired to zero), x1, t0, t1, x31
GprNums == {0, 1, T0, T1, 31}

\* distinct, recognisable register contents
PcOf(wid) == Bits(4096 + 16 * wid)
GprOf(wid, tid, r) == Bits(256 * (wid + 1) + 16 * (tid + 1) + r)

\* a target with every warp active and running, nothing selected; the
\* registers of the threads of warps 0 and 1 are tracked
HwBase(cfg) ==
    [cfg |-> cfg, dconfig |-> {}, dselect |-> {},
     wmask |-> [i \in 0..((Cardinality(CfgWarps(cfg)) + 31) \div 32 - 1) |-> {}],
     active |-> CfgWarps(cfg), halted |-> {},
     pc |-> [wid \in CfgWarps(cfg) |-> PcOf(wid)],
     hacause |-> [wid \in CfgWarps(cfg) |-> 0],
     dinject |-> NoInstr, dscratch |-> {}, injbusy |-> 0, stepbusy |-> 0,
     latency |-> 0, dmactive |-> TRUE, wakelat |-> 0, wakebusy |-> 0, resetbusy |-> 0,
     stuck |-> {},
     gpr |-> [th \in (CfgWarps(cfg) \cap {0, 1}) \X CfgThreads(cfg) |->
                 [r \in GprNums |-> IF r = 0 THEN {} ELSE GprOf(th[1], th[2], r)]],
     csr |-> (RV_CSR_MISA :> Bits(1073746176)) @@ (RV_CSR_MSCRATCH :> Bits(85)),
     mem |-> <<>>]

\* state_ once initialize() has returned OK: fetch_platform_info leaves
\* warp 0 / thread 0 selected
StateInitialized(h) ==
    [selected_wid |-> 0, selected_tid |-> 0, selected_warp_pc |-> h.pc[0],
     platinfo |-> [platinfo_of(HwPlatformWord(h)) EXCEPT !.misa = h.csr[RV_CSR_MISA]]]

\* state_ when initialize() failed in fetch_platform_info at the selection of
\* warp 0 / thread 0: the platform is known, the pointer is still unset
StateUnselected(h) ==
    [selected_wid |-> -1, selected_tid |-> -1, selected_warp_pc |-> {},
     platinfo |-> platinfo_of(HwPlatformWord(h))]

---------------------------------------------------------------------------
(* Recording a completed operation *)

\* no GDB server has been started
NoStub == [pos |-> "none"]

Snapshot == [hw |-> hw, st |-> state_, bps |-> breakpoints_]

OpRecord(op, args, w) ==
    [op |-> op, args |-> args, rc |-> w.rc, val |-> w.val, status |-> w.status,
     data |-> w.data, log |-> w.log, rcs |-> w.rcs, reply |-> w.reply,
     pre |-> Snapshot]

Result(op, args, w) ==
    /\ hw' = w.hw
    /\ state_' = w.st
    /\ breakpoints_' = w.bps
    /\ hist' = Append(hist, OpRecord(op, args, w))
    /\ UNCHANGED <<transport_, poll_retries_, stub>>

\* the operation op runs to its return, with the request faultAt answered by
\* a NACK
Commit(op, args, faultAt) == Result(op, args, Call(op, args, World(faultAt)))

NoFault == -1

\* no NACK, or a NACK in answer to one request of the sequence
Faults == {NoFault} \cup 0..MaxFaultAt

---------------------------------------------------------------------------
(* SpecDM: the DM access layer, one call from every enumerated DM state *)

DmWords == {{0, 7, 22}, {1, 8, 30}, WordBits}
DmFieldVals == {{}, {0}, {0, 2}, WordBits}
DmFaults == {NoFault, 0, 1}

DmWrTargets ==
    {<<"DSELECT", "winsel">>, <<"DSELECT", "warpsel">>, <<"DSELECT", "threadsel">>,
     <<"DCONFIG", "ebreakh">>, <<"DCONFIG", "resethaltreqcyc">>,
     <<"DSCRATCH", "data">>, <<"DCTRL", "injectreq">>, <<"DCTRL", "cause">>}

DmPollTargets ==
    {<<"DCTRL", "injectstate">>, <<"DCTRL", "stepstate">>, <<"DCTRL", "dmactive">>,
     <<"DSELECT", "threadsel">>, <<"DCTRL", "cause">>}

InitDM ==
    /\ \E ds \in {{}, {0, 7}}, dc \in DmWords, b \in 0..MaxLatency, sb \in 0..1 :
          hw = [HwBase(SmallCfg) EXCEPT !.dselect = ds, !.dconfig = dc, !.dscratch = dc,
                                        !.injbusy = b, !.stepbusy = sb,
                                        !.halted = {0}]
    /\ state_ = StateInitialized(hw)
    /\ breakpoints_ = <<>>
    /\ transport_ = TransportConnected
    /\ poll_retries_ \in 1..MaxPollRetries
    /\ hist = <<>>
    /\ stub = NoStub

DmRd ==
    \E reg \in {"DSELECT", "DCTRL", "DSCRATCH"}, f \in DmFaults :
        /\ hist = <<>>
        /\ Commit("dmreg_rd", [reg |-> reg], f)

DmWr ==
    \E reg \in {"DSELECT", "DSCRATCH"}, v \in DmWords, f \in DmFaults :
        /\ hist = <<>>
        /\ Commit("dmreg_wr", [reg |-> reg, value |-> v], f)

DmRdField ==
    \E t \in DmPollTargets, f \in DmFaults :
        /\ hist = <<>>
        /\ Commit("dmreg_rdfield", [reg |-> t[1], field |-> t[2]], f)

DmWrField ==
    \E t \in DmWrTargets, v \in DmFieldVals, f \in DmFaults :
        /\ hist = <<>>
        /\ Commit("dmreg_wrfield", [reg |-> t[1], field |-> t[2], value |-> v], f)

DmPollField ==
    \E t \in DmPollTargets, e \in {{}, {0}}, m \in -1..MaxPollRetries, f \in DmFaults :
        /\ hist = <<>>
        /\ Commit("dmreg_pollfield",
                  [reg |-> t[1], field |-> t[2], exp_value |-> e, max_retries |-> m], f)

NextDM == DmRd \/ DmWr \/ DmRdField \/ DmWrField \/ DmPollField

SpecDM == InitDM /\ [][NextDM]_vars

---------------------------------------------------------------------------
(* SpecConn: the DM access layer of a back end without a transport or with  *)
(* a transport that is not connected                                        *)

InitConn ==
    /\ \E ds \in {{}, {0, 7}}, dc \in DmWords, b \in 0..MaxLatency, sb \in 0..1 :
          hw = [HwBase(SmallCfg) EXCEPT !.dselect = ds, !.dconfig = dc, !.dscratch = dc,
                                        !.injbusy = b, !.stepbusy = sb,
                                        !.halted = {0}]
    /\ state_ = StateUnselected(hw)
    /\ breakpoints_ = <<>>
    /\ transport_ \in {TransportAbsent, TransportDisconnected}
    /\ poll_retries_ \in 1..MaxPollRetries
    /\ hist = <<>>
    /\ stub = NoStub

SpecConn == InitConn /\ [][NextDM]_vars

---------------------------------------------------------------------------
(* SpecSel: warp selection and status queries on a two-window platform *)

SelWidLists == {<<>>, <<0>>, <<32, 0, 33>>, <<1, BigNumWarps, -1, 33>>}
SelPointers == {<<33, 1>>, <<1, 0>>, <<BigNumWarps, 0>>, <<0, 2>>}
SelFlags == {<<FALSE, FALSE>>, <<TRUE, FALSE>>, <<TRUE, TRUE>>}

\* (active, halted) combinations of the warps
SelWarpStates ==
    {<<CfgWarps(BigCfg), {}>>,
     <<CfgWarps(BigCfg), {0, 33}>>,
     <<CfgWarps(BigCfg) \ {1}, {1, 32}>>,
     <<CfgWarps(BigCfg), CfgWarps(BigCfg)>>}

InitSel ==
    /\ \E ws \in SelWarpStates :
          hw = [HwBase(BigCfg) EXCEPT !.active = ws[1], !.halted = ws[2]]
    /\ state_ \in {StateInitialized(hw), StateUnselected(hw)}
    /\ breakpoints_ = <<>>
    /\ transport_ = TransportConnected
    /\ poll_retries_ = MaxPollRetries
    /\ hist = <<>>
    /\ stub = NoStub

SelectWarps ==
    \E wids \in SelWidLists :
        /\ Len(hist) < MaxSelOps
        /\ Commit("select_warps", [wids |-> wids], NoFault)

SelectWarpThread ==
    \E p \in SelPointers :
        /\ Len(hist) < MaxSelOps
        /\ Commit("select_warp_thread", [g_wid |-> p[1], tid |-> p[2]], NoFault)

GetSelectedWarpThread ==
    \E force_fetch \in BOOLEAN :
        /\ Len(hist) < MaxSelOps
        /\ Commit("get_selected_warp_thread", [force_fetch |-> force_fetch], NoFault)

GetWarpStatus ==
    \E fl \in SelFlags :
        /\ Len(hist) < MaxSelOps
        /\ Commit("get_warp_status", [include_pc |-> fl[1], include_hacause |-> fl[2]], NoFault)

NextSel == SelectWarps \/ SelectWarpThread \/ GetSelectedWarpThread \/ GetWarpStatus

SpecSel == InitSel /\ [][NextSel]_vars

---------------------------------------------------------------------------
(* SpecSelArg: one selection of a thread, with arguments inside and outside *)
(* the platform                                                             *)

SelArgWids == {-1, 0, 33, BigNumWarps, BigNumWarps + 1}
SelArgTids == -1..2

SelectAnyThread ==
    \E g_wid \in SelArgWids, tid \in SelArgTids, f \in {NoFault, 0} :
        /\ hist = <<>>
        /\ Commit("select_warp_thread", [g_wid |-> g_wid, tid |-> tid], f)

NextSelArg == SelectAnyThread

SpecSelArg == InitSel /\ [][NextSelArg]_vars

---------------------------------------------------------------------------
(* SpecStatus: one status query, with every request in turn answered by a   *)
(* NACK                                                                     *)

GetWarpStatusOnce ==
    \E fl \in SelFlags, f \in Faults :
        /\ hist = <<>>
        /\ Commit("get_warp_status", [include_pc |-> fl[1], include_hacause |-> fl[2]], f)

NextStatus == GetWarpStatusOnce

SpecStatus == InitSel /\ [][NextStatus]_vars

---------------------------------------------------------------------------
(* SpecCsr: one CSR access on a halted, selected thread, with every request *)
(* of the sequence in turn answered by a NACK, and with slow injects        *)

CsrAddrs == {RV_CSR_MISA, RV_CSR_MSCRATCH}
CsrValues == {Bits(21930), WordBits}

InitCsr ==
    /\ \E l \in 0..MaxLatency :
          hw = [HwBase(SmallCfg) EXCEPT !.halted = {0}, !.latency = l]
    /\ state_ \in {StateInitialized(hw), StateUnselected(hw)}
    /\ breakpoints_ = <<>>
    /\ transport_ = TransportConnected
    /\ poll_retries_ \in 1..MaxPollRetries
    /\ hist = <<>>
    /\ stub = NoStub

ReadCsr ==
    \E regaddr \in CsrAddrs, f \in Faults :
        /\ hist = <<>>
        /\ Commit("read_csr", [regaddr |-> regaddr], f)

WriteCsr ==
    \E regaddr \in CsrAddrs, value \in CsrValues, f \in Faults :
        /\ hist = <<>>
        /\ Commit("write_csr", [regaddr |-> regaddr, value |-> value], f)

NextCsr == ReadCsr \/ WriteCsr

SpecCsr == InitCsr /\ [][NextCsr]_vars

---------------------------------------------------------------------------
(* SpecMem: memory and breakpoint operations on a 16-byte region that spans *)
(* the wrap of the address space (0xFFFFFFF8 .. 0x00000007).  A behaviour   *)
(* works on one address: the first operation chooses it.                    *)

MemBase == WordBits \ {0, 1, 2}
MemOffsets == 0..15
MemAddr(j) == Add32(MemBase, Bits(j))
MemOffset(A) == Val(Sub32(A, MemBase))
MemWords == {MemAddr(4 * k) : k \in 0..3}

\* byte j of the region initially holds 17 + j
MemImage == [a \in MemWords |-> BytesWord([i \in 1..4 |-> 17 + MemOffset(a) + i - 1])]

\* the byte at byte address A
MemByte(mem, A) == WordBytes(mem[AlignDown(A)])[Mod4(A) + 1]

\* the data written: n bytes unlike anything in the initial image
DataOf(n) == [i \in 1..n |-> 160 + i]

\* aligned, last byte of a word, and two addresses near the wrap
StartAddrs == {MemAddr(j) : j \in {0, 3, 5, 6}}
SessionAddrs == IF hist = <<>> THEN StartAddrs ELSE {hist[1].args.addr}
SessionLens == IF hist = <<>> THEN 1..MaxLen ELSE {hist[1].args.n}

InitMem ==
    /\ hw = [HwBase(SmallCfg) EXCEPT !.halted = {0}, !.mem = MemImage]
    /\ state_ = StateInitialized(hw)
    /\ breakpoints_ = <<>>
    /\ transport_ = TransportConnected
    /\ poll_retries_ = MaxPollRetries
    /\ hist = <<>>
    /\ stub = NoStub

WriteMem ==
    \E addr \in SessionAddrs, n \in SessionLens :
        /\ Len(hist) < MaxMemOps
        /\ Commit("write_mem", [addr |-> addr, n |-> n, data |-> DataOf(n)], NoFault)

ReadMem ==
    \E addr \in SessionAddrs, n \in SessionLens :
        /\ Len(hist) < MaxMemOps
        /\ Commit("read_mem", [addr |-> addr, n |-> n], NoFault)

SetBreakpoint ==
    \E addr \in SessionAddrs :
        /\ Len(hist) < MaxMemOps
        /\ Commit("set_breakpoint", [addr |-> addr, n |-> 4], NoFault)

RemoveBreakpoint ==
    \E addr \in SessionAddrs :
        /\ Len(hist) < MaxMemOps
        /\ Commit("remove_breakpoint", [addr |-> addr, n |-> 4], NoFault)

NextMem == WriteMem \/ ReadMem \/ SetBreakpoint \/ RemoveBreakpoint

SpecMem == InitMem /\ [][NextMem]_vars

---------------------------------------------------------------------------
(* SpecWake: wake_dm on a debug module that is active, asleep, slow to wake *)
(* or dead, possibly still in reset                                         *)

MaxWakeLat == 7
MaxResetBusy == 3

InitWake ==
    /\ \E a \in BOOLEAN, l \in -1..MaxWakeLat, b \in 0..MaxResetBusy :
          hw = [HwBase(SmallCfg) EXCEPT !.dmactive = a, !.wakelat = l, !.resetbusy = b]
    /\ state_ \in {StateInitialized(hw), StateUnselected(hw)}
    /\ breakpoints_ = <<>>
    /\ transport_ = TransportConnected
    /\ poll_retries_ \in 1..MaxPollRetries
    /\ hist = <<>>
    /\ stub = NoStub

WakeDm ==
    \E f \in Faults :
        /\ hist = <<>>
        /\ Commit("wake_dm", <<>>, f)

NextWake == WakeDm

SpecWake == InitWake /\ [][NextWake]_vars

---------------------------------------------------------------------------
(* SpecCtl: one halt or resume of a list of warps on a two-window platform  *)
(* with inactive warps and warps that stay halted                           *)

CtlWidLists == {<<0>>, <<1, 33>>, <<32, 0, 33>>, <<1, BigNumWarps>>}

\* (active, halted, stuck) combinations of the warps
CtlWarpStates ==
    {<<CfgWarps(BigCfg), {}, {}>>,
     <<CfgWarps(BigCfg), {0, 33}, {33}>>,
     <<CfgWarps(BigCfg) \ {1, 32}, {0}, {}>>,
     <<CfgWarps(BigCfg), CfgWarps(BigCfg), {}>>,
     <<CfgWarps(BigCfg), CfgWarps(BigCfg), {0, 1}>>}

MaxCtlFaultAt == 12
CtlFaults == {NoFault} \cup 0..MaxCtlFaultAt

InitCtl ==
    /\ \E ws \in CtlWarpStates :
          hw = [HwBase(BigCfg) EXCEPT !.active = ws[1], !.halted = ws[2], !.stuck = ws[3]]
    /\ state_ \in {StateInitialized(hw), StateUnselected(hw)}
    /\ breakpoints_ = <<>>
    /\ transport_ = TransportConnected
    /\ poll_retries_ = MaxPollRetries
    /\ hist = <<>>
    /\ stub = NoStub

HaltWarps ==
    \E wids \in CtlWidLists, f \in CtlFaults :
        /\ hist = <<>>
        /\ Commit("halt_warps", [wids |-> wids], f)

ResumeWarps ==
    \E wids \in CtlWidLists, f \in CtlFaults :
        /\ hist = <<>>
        /\ Commit("resume_warps", [wids |-> wids], f)

NextCtl == HaltWarps \/ ResumeWarps

SpecCtl == InitCtl /\ [][NextCtl]_vars

---------------------------------------------------------------------------
(* SpecThread: one operation on the selected thread of a two-warp platform, *)
(* with and without a thread selected, with the warp halted or running; a   *)
(* register write may be followed by a register read                        *)

ThreadFaults == {NoFault, 0, 2}
ThreadValues == {Bits(21930), WordBits}
ThreadInstrs == {asm_csrr(T0, RV_CSR_MISA), asm_addi_t0_4}

InitThread ==
    /\ \E l \in 0..MaxLatency, H \in {{0}, {}} :
          hw = [HwBase(SmallCfg) EXCEPT !.halted = H, !.latency = l]
    /\ state_ \in {StateInitialized(hw), StateUnselected(hw)}
    /\ breakpoints_ = <<>>
    /\ transport_ = TransportConnected
    /\ poll_retries_ = MaxPollRetries
    /\ hist = <<>>
    /\ stub = NoStub

GetWarpPc ==
    \E f \in ThreadFaults :
        /\ hist = <<>>
        /\ Commit("get_warp_pc", <<>>, f)

SetWarpPc ==
    \E pc \in ThreadValues, f \in ThreadFaults :
        /\ hist = <<>>
        /\ Commit("set_warp_pc", [pc |-> pc], f)

StepWarp ==
    \E f \in ThreadFaults :
        /\ hist = <<>>
        /\ Commit("step_warp", <<>>, f)

GetHaltCause ==
    \E f \in ThreadFaults :
        /\ hist = <<>>
        /\ Commit("get_halt_cause", <<>>, f)

InjectInstruction ==
    \E instruction \in ThreadInstrs, f \in ThreadFaults :
        /\ hist = <<>>
        /\ Commit("inject_instruction", [instruction |-> instruction], f)

ReadGpr ==
    \E regnum \in GprNums, f \in ThreadFaults :
        /\ hist = <<>> \/ (Len(hist) = 1 /\ hist[1].op = "write_gpr")
        /\ Commit("read_gpr", [regnum |-> regnum], f)

WriteGpr ==
    \E regnum \in GprNums, value \in ThreadValues, f \in ThreadFaults :
        /\ hist = <<>>
        /\ Commit("write_gpr", [regnum |-> regnum, value |-> value], f)

NextThread ==
    \/ GetWarpPc \/ SetWarpPc \/ StepWarp \/ GetHaltCause \/ InjectInstruction
    \/ ReadGpr \/ WriteGpr

SpecThread == InitThread /\ [][NextThread]_vars

---------------------------------------------------------------------------
(* SpecBuf: one read_mem into a buffer that is empty or already holds bytes *)

BufAddrs == {MemAddr(j) : j \in MemOffsets}
BufLens == 0..2
BufContents == {<<>>, <<170>>, <<1, 2, 3, 4, 5>>}

InitBuf ==
    /\ hw = [HwBase(SmallCfg) EXCEPT !.halted = {0}, !.mem = MemImage]
    /\ state_ \in {StateInitialized(hw), StateUnselected(hw)}
    /\ breakpoints_ = <<>>
    /\ transport_ = TransportConnected
    /\ poll_retries_ = MaxPollRetries
    /\ hist = <<>>
    /\ stub = NoStub

\* read_mem(addr, n, buf) with the caller's buf holding the bytes buf
ReadMemInto ==
    \E addr \in BufAddrs, n \in BufLens, buf \in BufContents :
        /\ hist = <<>>
        /\ Commit("read_mem_buf", [addr |-> addr, n |-> n, buf |-> buf], NoFault)

NextBuf == ReadMemInto

SpecBuf == InitBuf /\ [][NextBuf]_vars

---------------------------------------------------------------------------
(* SpecStub: a session of two RSP commands on a two-warp platform, with and *)
(* without a thread selected, a request of each command possibly answered   *)
(* by a NACK                                                                *)

MaxStubCmds == 2
StubFaults == {NoFault, 0, 3}
StubRegs == {1, 31, 32, 33, 42}
StubTids == {0, 1, 4, 5}

InitStub ==
    /\ hw = [HwBase(SmallCfg) EXCEPT !.halted = {0}, !.mem = MemImage]
    /\ state_ \in {StateInitialized(hw), StateUnselected(hw)}
    /\ breakpoints_ = <<>>
    /\ transport_ = TransportConnected
    /\ poll_retries_ = MaxPollRetries
    /\ hist = <<>>
    /\ stub = NoStub

CmdReadReg ==
    \E reg_idx \in StubRegs, f \in StubFaults :
        /\ Len(hist) < MaxStubCmds
        /\ Commit("cmd_read_reg", [reg_idx |-> reg_idx], f)

CmdWriteReg ==
    \E reg_idx \in StubRegs, f \in StubFaults :
        /\ Len(hist) < MaxStubCmds
        /\ Commit("cmd_write_reg", [reg_idx |-> reg_idx, val |-> Bits(21930)], f)

CmdReadMem ==
    \E length \in 0..2, f \in StubFaults :
        /\ Len(hist) < MaxStubCmds
        /\ Commit("cmd_read_mem", [addr |-> MemAddr(3), length |-> length], f)

CmdStep ==
    \E args \in {<<>>, <<Bits(4128)>>}, f \in StubFaults :
        /\ Len(hist) < MaxStubCmds
        /\ Commit("cmd_step", [args |-> args], f)

CmdThreadSelect ==
    \E tid \in StubTids, f \in StubFaults :
        /\ Len(hist) < MaxStubCmds
        /\ Commit("cmd_thread_select", [tid |-> tid], f)

NextStub == CmdReadReg \/ CmdWriteReg \/ CmdReadMem \/ CmdStep \/ CmdThreadSelect

SpecStub == InitStub /\ [][NextStub]_vars

---------------------------------------------------------------------------
(* The RSP stub on its TCP connection: byte strings are sequences of the    *)
(* byte values 0..255                                                       *)

RECV_BUFSZ == 4096

\* one digit of "%x"
HexDigit(n) == IF n < 10 THEN 48 + n ELSE 87 + n

\* strfmt("%02x", n) of n < 256
Fmt02x(n) == <<HexDigit(n \div 16), HexDigit(n % 16)>>

\* The uint32_t sum of checksum_str is kept as its two 16-bit halves
\* <<high, low>>.  static_cast<uint32_t>(c) of the char holding byte b, where
\* char is a signed or an unsigned type:
CharWord_magnitude(b, char_signed) ==
    IF char_signed /\ b >= 128 THEN <<0, 256 - b>> ELSE <<0, b>>

CharWord(b, char_signed) ==
    IF char_signed /\ b >= 128 THEN <<65535, 65280 + b>> ELSE <<0, b>>

\* a + b on uint32_t
AddHalves(a, b) ==
    <<(a[1] + b[1] + ((a[2] + b[2]) \div 65536)) % 65536, (a[2] + b[2]) % 65536>>

\* the sum of the characters from..to of msg, added up by halving the range
\* (uint32_t addition is associative)
RECURSIVE checksum_sum(_, _, _, _)
checksum_sum(msg, from, to, char_signed) ==
    IF from > to THEN <<0, 0>>
    ELSE IF from = to THEN CharWord(msg[from], char_signed)
    ELSE AddHalves(checksum_sum(msg, from, (from + to) \div 2, char_signed),
                   checksum_sum(msg, (from + to) \div 2 + 1, to, char_signed))

\* strfmt("%02x", sum & 0xFF)
checksum_str(msg, char_signed) == Fmt02x(checksum_sum(msg, 1, Len(msg), char_signed)[2] % 256)

\* msg.c_str() under "%s": the bytes before the first NUL
c_str(msg) == IF find(msg, 0) < 0 THEN msg ELSE SubSeq(msg, 1, find(msg, 0))

packetify(msg, char_signed) == <<36>> \o c_str(msg) \o <<35>> \o checksum_str(msg, char_signed)

\* what the server did for its current client, in order: e is "accept", "iter" (an iteration of the
\* command loop starts), "tx" (send_data called with data; ok: it returned),
\* "closed" (recv saw the client's disconnect), "rxerr" (recv_data threw),
\* "cmd" (data is dispatched as a command), "leave" (the command loop ends)
Ev(e, data, ok) == [e |-> e, data |-> data, ok |-> ok]

Note(s, e, data, ok) == [s EXCEPT !.ev = Append(@, Ev(e, data, ok))]

\* TCPServer::send_data: throws when the server is not running or send() fails
send_ok(s) == s.running_ /\ s.client_fd_ >= 0 /\ s.sends \notin s.txfail

TCPServer_send_data(s, buf) ==
    [s EXCEPT !.ev = Append(@, Ev("tx", buf, send_ok(s))), !.sends = @ + 1]

\* the exception of send_data is caught and logged
GDBStub_send_packet(s, msg) == TCPServer_send_data(s, packetify(msg, s.char_signed))

GDBStub_send_ack(s) == TCPServer_send_data(s, <<43>>)

\* TCPServer::recv_data(buf, n) returns data, returns 0, or throws
recv_kind(s) ==
    IF ~s.running_ \/ s.client_fd_ < 0 THEN "throw"
    ELSE IF s.rx # <<>> THEN "data"
    ELSE IF s.rxend = "fin" THEN "zero" ELSE "throw"

recv_ret(s, rc, out) == [s EXCEPT !.rc = rc, !.pkt = out]

\* recv_data returned 0 after closing the client (RCODE_ERROR), or threw
\* (caught at the end of recv_packet: RCODE_TRANSPORT_ERR)
recv_end(s) ==
    IF recv_kind(s) = "zero"
    THEN recv_ret(Note([s EXCEPT !.client_fd_ = -1], "closed", <<>>, TRUE), RCODE_ERROR, <<>>)
    ELSE recv_ret(Note(s, "rxerr", <<>>, FALSE), RCODE_TRANSPORT_ERR, <<>>)

\* the first n bytes of the stream have been read
drop(s, n) == [s EXCEPT !.rx = SubSeq(@, n + 1, Len(@))]

\* recv_data(checksum_buf, 2) may return one byte only; checksum_buf[1] then
\* keeps the indeterminate value it had
got2(s) == Len(s.rx) >= 2 /\ ~s.short
checksum_buf(s) == IF got2(s) THEN <<s.rx[1], s.rx[2]>> ELSE <<s.rx[1], s.garbage>>
take2(s) == drop(s, IF got2(s) THEN 2 ELSE 1)

\* checksum_buf is not NUL-terminated: strtol goes on into the byte that
\* follows it in memory
recv_verify(s, buf, calculated_checksum, cb) ==
    IF strtol16(cb \o <<s.garbage>>) % 256 # calculated_checksum
    THEN recv_ret([s EXCEPT !.calc = calculated_checksum], RCODE_ERROR, <<>>)
    ELSE recv_ret([s EXCEPT !.calc = calculated_checksum], RCODE_OK, <<36>> \o buf \o cb)

\* calculated_checksum -= '#', then the two characters of the checksum
recv_checksum(s, buf, sum) ==
    IF recv_kind(s) # "data" THEN recv_end(s)
    ELSE recv_verify(take2(s), buf, (sum + 256 - 35) % 256, checksum_buf(s))

\* the uint8_t calculated_checksum over the bytes from..to of buf, added up
\* by halving the range (uint8_t addition is associative)
RECURSIVE sum8(_, _, _)
sum8(buf, from, to) ==
    IF from > to THEN 0
    ELSE IF from = to THEN buf[from] % 256
    ELSE (sum8(buf, from, (from + to) \div 2) + sum8(buf, (from + to) \div 2 + 1, to)) % 256

\* The loop of recv_packet on the stream that starts with '$'; h is the number
\* of bytes the loop reads up to and including the first '#' (0: there is
\* none).  The loop ends at that '#', or at the byte that finds buf full, or
\* when the stream has run out.
recv_body(s, h) ==
    IF h > 0 /\ h < RECV_BUFSZ
    THEN recv_checksum(drop(s, h + 1), SubSeq(s.rx, 2, h + 1), sum8(s.rx, 2, h + 1))
    ELSE IF Len(s.rx) - 1 >= RECV_BUFSZ THEN recv_ret(drop(s, RECV_BUFSZ + 1), RCODE_ERROR, <<>>)
    ELSE recv_end(drop(s, Len(s.rx)))

recv_first(s, c) ==
    IF c = 43 THEN recv_ret(drop(s, 1), RCODE_OK, <<>>)
    ELSE IF c = 45 THEN recv_ret(drop(s, 1), RCODE_ERROR, <<>>)
    ELSE IF c = 3 THEN recv_ret(GDBStub_send_packet(drop(s, 1), <<83, 48, 53>>), RCODE_OK, <<>>)
    ELSE IF c # 36 THEN recv_ret(drop(s, 1), RCODE_ERROR, <<>>)
    ELSE recv_body(s, find(Tail(s.rx), 35) + 1)

\* out.clear(); calc = -1: calculated_checksum has not been compared yet
recv_packet(s) ==
    IF recv_kind(s) # "data" THEN recv_end([s EXCEPT !.pkt = <<>>, !.calc = -1])
    ELSE recv_first([s EXCEPT !.pkt = <<>>, !.calc = -1], s.rx[1])

---------------------------------------------------------------------------
(* The handlers of the stub that answer from the stub's own state *)

\* the thread map as the constructor builds it: thread_map_[global_tid] is
\* assigned for wid = 0, 1, ... and l_tid = 0, 1, ..., a later assignment to
\* the same key replacing the earlier one
\* a numbering that strides the warps by one
global_tid_unit_stride(wid, l_tid, num_threads) == 1 + wid + l_tid

global_tid(wid, l_tid, num_threads) == 1 + wid * num_threads + l_tid

build_last(g, num_warps, num_threads) ==
    CHOOSE p \in (0..(num_warps - 1)) \X (0..(num_threads - 1)) :
        /\ global_tid(p[1], p[2], num_threads) = g
        /\ \A q \in (0..(num_warps - 1)) \X (0..(num_threads - 1)) :
              global_tid(q[1], q[2], num_threads) = g =>
                  q[1] < p[1] \/ (q[1] = p[1] /\ q[2] <= p[2])

build_thread_map(num_warps, num_threads) ==
    [g \in {global_tid(wid, l_tid, num_threads) :
               wid \in 0..(num_warps - 1), l_tid \in 0..(num_threads - 1)} |->
        build_last(g, num_warps, num_threads)]

MAX_THREADS_PER_REPLY == 64

\* strfmt("%x", n) of n > 0
RECURSIVE Fmtx(_)
Fmtx(n) == IF n < 16 THEN <<HexDigit(n)>> ELSE Fmtx(n \div 16) \o <<HexDigit(n % 16)>>

\* the "%x," items of the keys at positions from..to of the map's iteration,
\* put together by halving the range
RECURSIVE thread_items(_, _, _)
thread_items(order, from, to) ==
    IF from > to THEN <<>>
    ELSE IF from = to THEN Fmtx(order[from]) \o <<44>>
    ELSE thread_items(order, from, (from + to) \div 2)
             \o thread_items(order, (from + to) \div 2 + 1, to)

\* reply.pop_back() when reply.back() == ','
pop_comma(reply) == IF reply[Len(reply)] = 44 THEN SubSeq(reply, 1, Len(reply) - 1) ELSE reply

thread_batch(s) ==
    IF Len(s.thread_order) - s.thread_enum_cursor_ < MAX_THREADS_PER_REPLY
    THEN Len(s.thread_order) - s.thread_enum_cursor_
    ELSE MAX_THREADS_PER_REPLY

cmd_thread_list_next(s) ==
    IF s.thread_enum_cursor_ >= Len(s.thread_order) THEN GDBStub_send_packet(s, <<108>>)
    ELSE GDBStub_send_packet(
             [s EXCEPT !.thread_enum_cursor_ = @ + thread_batch(s)],
             pop_comma(<<109>> \o thread_items(s.thread_order, s.thread_enum_cursor_ + 1,
                                               s.thread_enum_cursor_ + thread_batch(s))))

\* variant: the enumeration is not restarted
cmd_thread_list_first_no_reset(s) == cmd_thread_list_next(s)

cmd_thread_list_first(s) == cmd_thread_list_next([s EXCEPT !.thread_enum_cursor_ = 0])

target_xml == <<
    60, 63, 120, 109, 108, 32, 118, 101, 114, 115, 105, 111, 110, 61, 34, 49, 46, 48, 34, 63, 62, 10, 32, 32,
    32, 32, 60, 33, 68, 79, 67, 84, 89, 80, 69, 32, 116, 97, 114, 103, 101, 116, 32, 83, 89, 83, 84, 69,
    77, 32, 34, 103, 100, 98, 45, 116, 97, 114, 103, 101, 116, 46, 100, 116, 100, 34, 62, 10, 32, 32, 32, 32,
    60, 116, 97, 114, 103, 101, 116, 62, 10, 32, 32, 32, 32, 32, 32, 32, 32, 60, 97, 114, 99, 104, 105, 116,
    101, 99, 116, 117, 114, 101, 62, 114, 105, 115, 99, 118, 58, 114, 118, 51, 50, 60, 47, 97, 114, 99, 104, 105,
    116, 101, 99, 116, 117, 114, 101, 62, 10, 32, 32, 32, 32, 32, 32, 32, 32, 60, 102, 101, 97, 116, 117, 114,
    101, 32, 110, 97, 109, 101, 61, 34, 111, 114, 103, 46, 103, 110, 117, 46, 103, 100, 98, 46, 114, 105, 115, 99,
    118, 46, 99, 112, 117, 34, 62, 10, 32, 32, 32, 32, 32, 32, 32, 32, 32, 32, 32, 32, 60, 114, 101, 103,
    32, 110, 97, 109, 101, 61, 34, 120, 48, 34, 32, 98, 105, 116, 115, 105, 122, 101, 61, 34, 51, 50, 34, 32,
    116, 121, 112, 101, 61, 34, 105, 110, 116, 34, 32, 103, 114, 111, 117, 112, 61, 34, 103, 101, 110, 101, 114, 97,
    108, 34, 47, 62, 10, 32, 32, 32, 32, 32, 32, 32, 32, 32, 32, 32, 32, 60, 114, 101, 103, 32, 110, 97,
    109, 101, 61, 34, 120, 49, 34, 32, 98, 105, 116, 115, 105, 122, 101, 61, 34, 51, 50, 34, 32, 116, 121, 112,
    101, 61, 34, 105, 110, 116, 34, 32, 103, 114, 111, 117, 112, 61, 34, 103, 101, 110, 101, 114, 97, 108, 34, 47,
    62, 10, 32, 32, 32, 32, 32, 32, 32, 32, 32, 32, 32, 32, 60, 114, 101, 103, 32, 110, 97, 109, 101, 61,
    34, 120, 50, 34, 32, 98, 105, 116, 115, 105, 122, 101, 61, 34, 51, 50, 34, 32, 116, 121, 112, 101, 61, 34,
    105, 110, 116, 34, 32, 103, 114, 111, 117, 112, 61, 34, 103, 101, 110, 101, 114, 97, 108, 34, 47, 62, 10, 32,
    32, 32, 32, 32, 32, 32, 32, 32, 32, 32, 32, 60, 114, 101, 103, 32, 110, 97, 109, 101, 61, 34, 120, 51,
    34, 32, 98, 105, 116, 115, 105, 122, 101, 61, 34, 51, 50, 34, 32, 116, 121, 112, 101, 61, 34, 105, 110, 116,
    34, 32, 103, 114, 111, 117, 112, 61, 34, 103, 101, 110, 101, 114, 97, 108, 34, 47, 62, 10, 32, 32, 32, 32,
    32, 32, 32, 32, 32, 32, 32, 32, 60, 114, 101, 103, 32, 110, 97, 109, 101, 61, 34, 120, 52, 34, 32, 98,
    105, 116, 115, 105, 122, 101, 61, 34, 51, 50, 34, 32, 116, 121, 112, 101, 61, 34, 105, 110, 116, 34, 32, 103,
    114, 111, 117, 112, 61, 34, 103, 101, 110, 101, 114, 97, 108, 34, 47, 62, 10, 32, 32, 32, 32, 32, 32, 32,
    32, 32, 32, 32, 32, 60, 114, 101, 103, 32, 110, 97, 109, 101, 61, 34, 120, 53, 34, 32, 98, 105, 116, 115,
    105, 122, 101, 61, 34, 51, 50, 34, 32, 116, 121, 112, 101, 61, 34, 105, 110, 116, 34, 32, 103, 114, 111, 117,
    112, 61, 34, 103, 101, 110, 101, 114, 97, 108, 34, 47, 62, 10, 32, 32, 32, 32, 32, 32, 32, 32, 32, 32,
    32, 32, 60, 114, 101, 103, 32, 110, 97, 109, 101, 61, 34, 120, 54, 34, 32, 98, 105, 116, 115, 105, 122, 101,
    61, 34, 51, 50, 34, 32, 116, 121, 112, 101, 61, 34, 105, 110, 116, 34, 32, 103, 114, 111, 117, 112, 61, 34,
    103, 101, 110, 101, 114, 97, 108, 34, 47, 62, 10, 32, 32, 32, 32, 32, 32, 32, 32, 32, 32, 32, 32, 60,
    114, 101, 103, 32, 110, 97, 109, 101, 61, 34, 120, 55, 34, 32, 98, 105, 116, 115, 105, 122, 101, 61, 34, 51,
    50, 34, 32, 116, 121, 112, 101, 61, 34, 105, 110, 116, 34, 32, 103, 114, 111, 117, 112, 61, 34, 103, 101, 110,
    101, 114, 97, 108, 34, 47, 62, 10, 32, 32, 32, 32, 32, 32, 32, 32, 32, 32, 32, 32, 60, 114, 101, 103,
    32, 110, 97, 109, 101, 61, 34, 120, 56, 34, 32, 98, 105, 116, 115, 105, 122, 101, 61, 34, 51, 50, 34, 32,
    116, 121, 112, 101, 61, 34, 105, 110, 116, 34, 32, 103, 114, 111, 117, 112, 61, 34, 103, 101, 110, 101, 114, 97,
    108, 34, 47, 62, 10, 32, 32, 32, 32, 32, 32, 32, 32, 32, 32, 32, 32, 60, 114, 101, 103, 32, 110, 97,
    109, 101, 61, 34, 120, 57, 34, 32, 98, 105, 116, 115, 105, 122, 101, 61, 34, 51, 50, 34, 32, 116, 121, 112,
    101, 61, 34, 105, 110, 116, 34, 32, 103, 114, 111, 117, 112, 61, 34, 103, 101, 110, 101, 114, 97, 108, 34, 47,
    62, 10, 32, 32, 32, 32, 32, 32, 32, 32, 32, 32, 32, 32, 60, 114, 101, 103, 32, 110, 97, 109, 101, 61,
    34, 120, 49, 48, 34, 32, 98, 105, 116, 115, 105, 122, 101, 61, 34, 51, 50, 34, 32, 116, 121, 112, 101, 61,
    34, 105, 110, 116, 34, 32, 103, 114, 111, 117, 112, 61, 34, 103, 101, 110, 101, 114, 97, 108, 34, 47, 62, 10,
    32, 32, 32, 32, 32, 32, 32, 32, 32, 32, 32, 32, 60, 114, 101, 103, 32, 110, 97, 109, 101, 61, 34, 120,
    49, 49, 34, 32, 98, 105, 116, 115, 105, 122, 101, 61, 34, 51, 50, 34, 32, 116, 121, 112, 101, 61, 34, 105,
    110, 116, 34, 32, 103, 114, 111, 117, 112, 61, 34, 103, 101, 110, 101, 114, 97, 108, 34, 47, 62, 10, 32, 32,
    32, 32, 32, 32, 32, 32, 32, 32, 32, 32, 60, 114, 101, 103, 32, 110, 97, 109, 101, 61, 34, 120, 49, 50,
    34, 32, 98, 105, 116, 115, 105, 122, 101, 61, 34, 51, 50, 34, 32, 116, 121, 112, 101, 61, 34, 105, 110, 116,
    34, 32, 103, 114, 111, 117, 112, 61, 34, 103, 101, 110, 101, 114, 97, 108, 34, 47, 62, 10, 32, 32, 32, 32,
    32, 32, 32, 32, 32, 32, 32, 32, 60, 114, 101, 103, 32, 110, 97, 109, 101, 61, 34, 120, 49, 51, 34, 32,
    98, 105, 116, 115, 105, 122, 101, 61, 34, 51, 50, 34, 32, 116, 121, 112, 101, 61, 34, 105, 110, 116, 34, 32,
    103, 114, 111, 117, 112, 61, 34, 103, 101, 110, 101, 114, 97, 108, 34, 47, 62, 10, 32, 32, 32, 32, 32, 32,
    32, 32, 32, 32, 32, 32, 60, 114, 101, 103, 32, 110, 97, 109, 101, 61, 34, 120, 49, 52, 34, 32, 98, 105,
    116, 115, 105, 122, 101, 61, 34, 51, 50, 34, 32, 116, 121, 112, 101, 61, 34, 105, 110, 116, 34, 32, 103, 114,
    111, 117, 112, 61, 34, 103, 101, 110, 101, 114, 97, 108, 34, 47, 62, 10, 32, 32, 32, 32, 32, 32, 32, 32,
    32, 32, 32, 32, 60, 114, 101, 103, 32, 110, 97, 109, 101, 61, 34, 120, 49, 53, 34, 32, 98, 105, 116, 115,
    105, 122, 101, 61, 34, 51, 50, 34, 32, 116, 121, 112, 101, 61, 34, 105, 110, 116, 34, 32, 103, 114, 111, 117,
    112, 61, 34, 103, 101, 110, 101, 114, 97, 108, 34, 47, 62, 10, 32, 32, 32, 32, 32, 32, 32, 32, 32, 32,
    32, 32, 60, 114, 101, 103, 32, 110, 97, 109, 101, 61, 34, 120, 49, 54, 34, 32, 98, 105, 116, 115, 105, 122,
    101, 61, 34, 51, 50, 34, 32, 116, 121, 112, 101, 61, 34, 105, 110, 116, 34, 32, 103, 114, 111, 117, 112, 61,
    34, 103, 101, 110, 101, 114, 97, 108, 34, 47, 62, 10, 32, 32, 32, 32, 32, 32, 32, 32, 32, 32, 32, 32,
    60, 114, 101, 103, 32, 110, 97, 109, 101, 61, 34, 120, 49, 55, 34, 32, 98, 105, 116, 115, 105, 122, 101, 61,
    34, 51, 50, 34, 32, 116, 121, 112, 101, 61, 34, 105, 110, 116, 34, 32, 103, 114, 111, 117, 112, 61, 34, 103,
    101, 110, 101, 114, 97, 108, 34, 47, 62, 10, 32, 32, 32, 32, 32, 32, 32, 32, 32, 32, 32, 32, 60, 114,
    101, 103, 32, 110, 97, 109, 101, 61, 34, 120, 49, 56, 34, 32, 98, 105, 116, 115, 105, 122, 101, 61, 34, 51,
    50, 34, 32, 116, 121, 112, 101, 61, 34, 105, 110, 116, 34, 32, 103, 114, 111, 117, 112, 61, 34, 103, 101, 110,
    101, 114, 97, 108, 34, 47, 62, 10, 32, 32, 32, 32, 32, 32, 32, 32, 32, 32, 32, 32, 60, 114, 101, 103,
    32, 110, 97, 109, 101, 61, 34, 120, 49, 57, 34, 32, 98, 105, 116, 115, 105, 122, 101, 61, 34, 51, 50, 34,
    32, 116, 121, 112, 101, 61, 34, 105, 110, 116, 34, 32, 103, 114, 111, 117, 112, 61, 34, 103, 101, 110, 101, 114,
    97, 108, 34, 47, 62, 10, 32, 32, 32, 32, 32, 32, 32, 32, 32, 32, 32, 32, 60, 114, 101, 103, 32, 110,
    97, 109, 101, 61, 34, 120, 50, 48, 34, 32, 98, 105, 116, 115, 105, 122, 101, 61, 34, 51, 50, 34, 32, 116,
    121, 112, 101, 61, 34, 105, 110, 116, 34, 32, 103, 114, 111, 117, 112, 61, 34, 103, 101, 110, 101, 114, 97, 108,
    34, 47, 62, 10, 32, 32, 32, 32, 32, 32, 32, 32, 32, 32, 32, 32, 60, 114, 101, 103, 32, 110, 97, 109,
    101, 61, 34, 120, 50, 49, 34, 32, 98, 105, 116, 115, 105, 122, 101, 61, 34, 51, 50, 34, 32, 116, 121, 112,
    101, 61, 34, 105, 110, 116, 34, 32, 103, 114, 111, 117, 112, 61, 34, 103, 101, 110, 101, 114, 97, 108, 34, 47,
    62, 10, 32, 32, 32, 32, 32, 32, 32, 32, 32, 32, 32, 32, 60, 114, 101, 103, 32, 110, 97, 109, 101, 61,
    34, 120, 50, 50, 34, 32, 98, 105, 116, 115, 105, 122, 101, 61, 34, 51, 50, 34, 32, 116, 121, 112, 101, 61,
    34, 105, 110, 116, 34, 32, 103, 114, 111, 117, 112, 61, 34, 103, 101, 110, 101, 114, 97, 108, 34, 47, 62, 10,
    32, 32, 32, 32, 32, 32, 32, 32, 32, 32, 32, 32, 60, 114, 101, 103, 32, 110, 97, 109, 101, 61, 34, 120,
    50, 51, 34, 32, 98, 105, 116, 115, 105, 122, 101, 61, 34, 51, 50, 34, 32, 116, 121, 112, 101, 61, 34, 105,
    110, 116, 34, 32, 103, 114, 111, 117, 112, 61, 34, 103, 101, 110, 101, 114, 97, 108, 34, 47, 62, 10, 32, 32,
    32, 32, 32, 32, 32, 32, 32, 32, 32, 32, 60, 114, 101, 103, 32, 110, 97, 109, 101, 61, 34, 120, 50, 52,
    34, 32, 98, 105, 116, 115, 105, 122, 101, 61, 34, 51, 50, 34, 32, 116, 121, 112, 101, 61, 34, 105, 110, 116,
    34, 32, 103, 114, 111, 117, 112, 61, 34, 103, 101, 110, 101, 114, 97, 108, 34, 47, 62, 10, 32, 32, 32, 32,
    32, 32, 32, 32, 32, 32, 32, 32, 60, 114, 101, 103, 32, 110, 97, 109, 101, 61, 34, 120, 50, 53, 34, 32,
    98, 105, 116, 115, 105, 122, 101, 61, 34, 51, 50, 34, 32, 116, 121, 112, 101, 61, 34, 105, 110, 116, 34, 32,
    103, 114, 111, 117, 112, 61, 34, 103, 101, 110, 101, 114, 97, 108, 34, 47, 62, 10, 32, 32, 32, 32, 32, 32,
    32, 32, 32, 32, 32, 32, 60, 114, 101, 103, 32, 110, 97, 109, 101, 61, 34, 120, 50, 54, 34, 32, 98, 105,
    116, 115, 105, 122, 101, 61, 34, 51, 50, 34, 32, 116, 121, 112, 101, 61, 34, 105, 110, 116, 34, 32, 103, 114,
    111, 117, 112, 61, 34, 103, 101, 110, 101, 114, 97, 108, 34, 47, 62, 10, 32, 32, 32, 32, 32, 32, 32, 32,
    32, 32, 32, 32, 60, 114, 101, 103, 32, 110, 97, 109, 101, 61, 34, 120, 50, 55, 34, 32, 98, 105, 116, 115,
    105, 122, 101, 61, 34, 51, 50, 34, 32, 116, 121, 112, 101, 61, 34, 105, 110, 116, 34, 32, 103, 114, 111, 117,
    112, 61, 34, 103, 101, 110, 101, 114, 97, 108, 34, 47, 62, 10, 32, 32, 32, 32, 32, 32, 32, 32, 32, 32,
    32, 32, 60, 114, 101, 103, 32, 110, 97, 109, 101, 61, 34, 120, 50, 56, 34, 32, 98, 105, 116, 115, 105, 122,
    101, 61, 34, 51, 50, 34, 32, 116, 121, 112, 101, 61, 34, 105, 110, 116, 34, 32, 103, 114, 111, 117, 112, 61,
    34, 103, 101, 110, 101, 114, 97, 108, 34, 47, 62, 10, 32, 32, 32, 32, 32, 32, 32, 32, 32, 32, 32, 32,
    60, 114, 101, 103, 32, 110, 97, 109, 101, 61, 34, 120, 50, 57, 34, 32, 98, 105, 116, 115, 105, 122, 101, 61,
    34, 51, 50, 34, 32, 116, 121, 112, 101, 61, 34, 105, 110, 116, 34, 32, 103, 114, 111, 117, 112, 61, 34, 103,
    101, 110, 101, 114, 97, 108, 34, 47, 62, 10, 32, 32, 32, 32, 32, 32, 32, 32, 32, 32, 32, 32, 60, 114,
    101, 103, 32, 110, 97, 109, 101, 61, 34, 120, 51, 48, 34, 32, 98, 105, 116, 115, 105, 122, 101, 61, 34, 51,
    50, 34, 32, 116, 121, 112, 101, 61, 34, 105, 110, 116, 34, 32, 103, 114, 111, 117, 112, 61, 34, 103, 101, 110,
    101, 114, 97, 108, 34, 47, 62, 10, 32, 32, 32, 32, 32, 32, 32, 32, 32, 32, 32, 32, 60, 114, 101, 103,
    32, 110, 97, 109, 101, 61, 34, 120, 51, 49, 34, 32, 98, 105, 116, 115, 105, 122, 101, 61, 34, 51, 50, 34,
    32, 116, 121, 112, 101, 61, 34, 105, 110, 116, 34, 32, 103, 114, 111, 117, 112, 61, 34, 103, 101, 110, 101, 114,
    97, 108, 34, 47, 62, 10, 32, 32, 32, 32, 32, 32, 32, 32, 32, 32, 32, 32, 60, 114, 101, 103, 32, 110,
    97, 109, 101, 61, 34, 112, 99, 34, 32, 98, 105, 116, 115, 105, 122, 101, 61, 34, 51, 50, 34, 32, 116, 121,
    112, 101, 61, 34, 99, 111, 100, 101, 95, 112, 116, 114, 34, 32, 103, 114, 111, 117, 112, 61, 34, 103, 101, 110,
    101, 114, 97, 108, 34, 47, 62, 10, 32, 32, 32, 32, 32, 32, 32, 32, 60, 47, 102, 101, 97, 116, 117, 114,
    101, 62, 10, 32, 32, 32, 32, 32, 32, 32, 32, 60, 102, 101, 97, 116, 117, 114, 101, 32, 110, 97, 109, 101,
    61, 34, 111, 114, 103, 46, 118, 111, 114, 116, 101, 120, 46, 100, 101, 98, 117, 103, 46, 99, 115, 114, 34, 62,
    10, 32, 32, 32, 32, 32, 32, 32, 32, 32, 32, 32, 32, 60, 114, 101, 103, 32, 110, 97, 109, 101, 61, 34,
    118, 120, 95, 110, 117, 109, 95, 99, 111, 114, 101, 115, 34, 32, 98, 105, 116, 115, 105, 122, 101, 61, 34, 51,
    50, 34, 32, 116, 121, 112, 101, 61, 34, 105, 110, 116, 34, 32, 103, 114, 111, 117, 112, 61, 34, 118, 111, 114,
    116, 101, 120, 34, 47, 62, 10, 32, 32, 32, 32, 32, 32, 32, 32, 32, 32, 32, 32, 60, 114, 101, 103, 32,
    110, 97, 109, 101, 61, 34, 118, 120, 95, 110, 117, 109, 95, 119, 97, 114, 112, 115, 34, 32, 98, 105, 116, 115,
    105, 122, 101, 61, 34, 51, 50, 34, 32, 116, 121, 112, 101, 61, 34, 105, 110, 116, 34, 32, 103, 114, 111, 117,
    112, 61, 34, 118, 111, 114, 116, 101, 120, 34, 47, 62, 10, 32, 32, 32, 32, 32, 32, 32, 32, 32, 32, 32,
    32, 60, 114, 101, 103, 32, 110, 97, 109, 101, 61, 34, 118, 120, 95, 110, 117, 109, 95, 116, 104, 114, 101, 97,
    100, 115, 34, 32, 98, 105, 116, 115, 105, 122, 101, 61, 34, 51, 50, 34, 32, 116, 121, 112, 101, 61, 34, 105,
    110, 116, 34, 32, 103, 114, 111, 117, 112, 61, 34, 118, 111, 114, 116, 101, 120, 34, 47, 62, 10, 32, 32, 32,
    32, 32, 32, 32, 32, 32, 32, 32, 32, 60, 114, 101, 103, 32, 110, 97, 109, 101, 61, 34, 118, 120, 95, 99,
    111, 114, 101, 95, 105, 100, 34, 32, 98, 105, 116, 115, 105, 122, 101, 61, 34, 51, 50, 34, 32, 116, 121, 112,
    101, 61, 34, 105, 110, 116, 34, 32, 103, 114, 111, 117, 112, 61, 34, 118, 111, 114, 116, 101, 120, 34, 47, 62,
    10, 32, 32, 32, 32, 32, 32, 32, 32, 32, 32, 32, 32, 60, 114, 101, 103, 32, 110, 97, 109, 101, 61, 34,
    118, 120, 95, 119, 97, 114, 112, 95, 105, 100, 34, 32, 98, 105, 116, 115, 105, 122, 101, 61, 34, 51, 50, 34,
    32, 116, 121, 112, 101, 61, 34, 105, 110, 116, 34, 32, 103, 114, 111, 117, 112, 61, 34, 118, 111, 114, 116, 101,
    120, 34, 47, 62, 10, 32, 32, 32, 32, 32, 32, 32, 32, 32, 32, 32, 32, 60, 114, 101, 103, 32, 110, 97,
    109, 101, 61, 34, 118, 120, 95, 116, 104, 114, 101, 97, 100, 95, 105, 100, 34, 32, 98, 105, 116, 115, 105, 122,
    101, 61, 34, 51, 50, 34, 32, 116, 121, 112, 101, 61, 34, 105, 110, 116, 34, 32, 103, 114, 111, 117, 112, 61,
    34, 118, 111, 114, 116, 101, 120, 34, 47, 62, 10, 32, 32, 32, 32, 32, 32, 32, 32, 32, 32, 32, 32, 60,
    114, 101, 103, 32, 110, 97, 109, 101, 61, 34, 118, 120, 95, 97, 99, 116, 105, 118, 101, 95, 119, 97, 114, 112,
    115, 34, 32, 98, 105, 116, 115, 105, 122, 101, 61, 34, 51, 50, 34, 32, 116, 121, 112, 101, 61, 34, 105, 110,
    116, 34, 32, 103, 114, 111, 117, 112, 61, 34, 118, 111, 114, 116, 101, 120, 34, 47, 62, 10, 32, 32, 32, 32,
    32, 32, 32, 32, 32, 32, 32, 32, 60, 114, 101, 103, 32, 110, 97, 109, 101, 61, 34, 118, 120, 95, 97, 99,
    116, 105, 118, 101, 95, 116, 104, 114, 101, 97, 100, 115, 34, 32, 98, 105, 116, 115, 105, 122, 101, 61, 34, 51,
    50, 34, 32, 116, 121, 112, 101, 61, 34, 105, 110, 116, 34, 32, 103, 114, 111, 117, 112, 61, 34, 118, 111, 114,
    116, 101, 120, 34, 47, 62, 10, 32, 32, 32, 32, 32, 32, 32, 32, 32, 32, 32, 32, 60, 114, 101, 103, 32,
    110, 97, 109, 101, 61, 34, 118, 120, 95, 108, 111, 99, 97, 108, 95, 109, 101, 109, 95, 98, 97, 115, 101, 34,
    32, 98, 105, 116, 115, 105, 122, 101, 61, 34, 51, 50, 34, 32, 116, 121, 112, 101, 61, 34, 105, 110, 116, 34,
    32, 103, 114, 111, 117, 112, 61, 34, 118, 111, 114, 116, 101, 120, 34, 47, 62, 10, 32, 32, 32, 32, 32, 32,
    32, 32, 60, 47, 102, 101, 97, 116, 117, 114, 101, 62, 10, 32, 32, 32, 32, 60, 47, 116, 97, 114, 103, 101,
    116, 62, 10>>

qxfer_prefix == <<113, 88, 102, 101, 114, 58, 102, 101, 97, 116, 117, 114, 101, 115, 58, 114, 101, 97, 100, 58, 116, 97, 114, 103, 101, 116, 46, 120, 109, 108, 58>>

\* target_xml.substr(offset, length) and the marker, for offset < size; a
\* length of the size or more takes the rest
qxfer_send(s, offset, length) ==
    IF offset + Len(substr(target_xml, offset, length)) < Len(target_xml)
    THEN GDBStub_send_packet(s, <<109>> \o substr(target_xml, offset, length))
    ELSE GDBStub_send_packet(s, <<108>> \o substr(target_xml, offset, length))

\* offset and length are uint32_t
qxfer_chunk(s, offset, length) ==
    IF ~Lt32(offset, Bits(Len(target_xml))) THEN GDBStub_send_packet(s, <<108>>)
    ELSE qxfer_send(s, Val(offset),
                    IF Lt32(length, Bits(Len(target_xml))) THEN Val(length) ELSE Len(target_xml))

qxfer_range(s, range, comma) ==
    IF comma < 0 THEN GDBStub_send_packet(s, <<69, 48, 49>>)
    ELSE qxfer_chunk(s, strtoul16(SubSeq(range, 1, comma)),
                     strtoul16(SubSeq(range, comma + 2, Len(range))))

cmd_qxfer_features_read(s, cmdstr) ==
    IF ~starts_with(cmdstr, qxfer_prefix) THEN GDBStub_send_packet(s, <<69, 48, 48>>)
    ELSE qxfer_range(s, SubSeq(cmdstr, Len(qxfer_prefix) + 1, Len(cmdstr)),
                     find(SubSeq(cmdstr, Len(qxfer_prefix) + 1, Len(cmdstr)), 44))

cmd_halted(s) == GDBStub_send_packet(s, <<83, 48, 53>>)

cmd_attached(s) == [GDBStub_send_packet(s, <<49>>) EXCEPT !.is_attached_ = TRUE]

cmd_notfound(s) == GDBStub_send_packet(s, <<>>)

\* the registrations of the constructor
cmd_map_ ==
    {[prefix |-> <<63>>, fn |-> "cmd_halted"],
     [prefix |-> <<68>>, fn |-> "cmd_detach"],
     [prefix |-> <<103>>, fn |-> "cmd_read_regs"],
     [prefix |-> <<71>>, fn |-> "cmd_write_regs"],
     [prefix |-> <<112>>, fn |-> "cmd_read_reg"],
     [prefix |-> <<80>>, fn |-> "cmd_write_reg"],
     [prefix |-> <<109>>, fn |-> "cmd_read_mem"],
     [prefix |-> <<77>>, fn |-> "cmd_write_mem"],
     [prefix |-> <<99>>, fn |-> "cmd_continue"],
     [prefix |-> <<115>>, fn |-> "cmd_step"],
     [prefix |-> <<90>>, fn |-> "cmd_insert_bp"],
     [prefix |-> <<122>>, fn |-> "cmd_remove_bp"],
     [prefix |-> <<113, 102, 84, 104, 114, 101, 97, 100, 73, 110, 102, 111>>, fn |-> "cmd_thread_list_first"],
     [prefix |-> <<113, 115, 84, 104, 114, 101, 97, 100, 73, 110, 102, 111>>, fn |-> "cmd_thread_list_next"],
     [prefix |-> <<113, 84, 104, 114, 101, 97, 100, 69, 120, 116, 114, 97, 73, 110, 102, 111>>, fn |-> "cmd_thread_info"],
     [prefix |-> <<72, 99>>, fn |-> "cmd_thread_select"],
     [prefix |-> <<72, 103>>, fn |-> "cmd_thread_select"],
     [prefix |-> <<84>>, fn |-> "cmd_thread_alive"],
     [prefix |-> <<113, 83, 117, 112, 112, 111, 114, 116, 101, 100>>, fn |-> "cmd_supported"],
     [prefix |-> <<113, 65, 116, 116, 97, 99, 104, 101, 100>>, fn |-> "cmd_attached"],
     [prefix |-> qxfer_prefix, fn |-> "cmd_qxfer_features_read"],
     [prefix |-> <<118, 77, 117, 115, 116, 82, 101, 112, 108, 121, 69, 109, 112, 116, 121>>, fn |-> "cmd_notfound"]}

\* (this->*fn)(cmdstr); the handlers that go through the back end are followed
\* in SpecStub, here their invocation is recorded
handler(fn, cmdstr, s) ==
    CASE fn = "cmd_halted" -> cmd_halted(s)
      [] fn = "cmd_attached" -> cmd_attached(s)
      [] fn = "cmd_notfound" -> cmd_notfound(s)
      [] fn = "cmd_thread_list_first" -> cmd_thread_list_first(s)
      [] fn = "cmd_thread_list_next" -> cmd_thread_list_next(s)
      [] fn = "cmd_qxfer_features_read" -> cmd_qxfer_features_read(s, cmdstr)
      [] OTHER -> Note(s, "backend", cmdstr, TRUE)

\* the loop over cmd_map_: every registration whose prefix starts cmdstr is
\* acknowledged and run, in the order of the unordered_map
RECURSIVE dispatch_all(_, _, _)
dispatch_all(s, cmdstr, todo) ==
    IF todo = {} THEN s
    ELSE dispatch_all(handler((CHOOSE e \in todo : TRUE).fn, cmdstr, GDBStub_send_ack(s)),
                      cmdstr, todo \ {CHOOSE e \in todo : TRUE})

matching(cmdstr) == {e \in cmd_map_ : starts_with(cmdstr, e.prefix)}

\* a dispatch that acknowledges after the handler has replied
dispatch_ack_after(s, cmdstr) == GDBStub_send_ack(cmd_notfound(s))

dispatch(s, cmdstr) ==
    IF matching(cmdstr) = {} THEN cmd_notfound(GDBStub_send_ack(s))
    ELSE dispatch_all(s, cmdstr, matching(cmdstr))

\* the end of the command loop
leave(s) ==
    [Note(s, "leave", <<>>, TRUE) EXCEPT !.pos = IF s.allow_reconnect THEN "accept" ELSE "exit"]

\* what follows recv_packet in an iteration of the command loop; pkt without
\* its "$" and "#xx" is the command
serve_packet(r) ==
    IF r.rc = RCODE_TRANSPORT_ERR THEN leave(r)
    ELSE IF r.rc # RCODE_OK \/ r.pkt = <<>> THEN r
    ELSE dispatch(Note(r, "cmd", SubSeq(r.pkt, 2, Len(r.pkt) - 3), TRUE),
                  SubSeq(r.pkt, 2, Len(r.pkt) - 3))

serve_iteration(s) == serve_packet(recv_packet(Note(s, "iter", <<>>, TRUE)))

\* the stub after serve_forever has started its server
StubListening(num_warps, num_threads, order, char_signed) ==
    [pos |-> "accept", running_ |-> TRUE, client_fd_ |-> -1, allow_reconnect |-> TRUE,
     rx |-> <<>>, rxend |-> "fin", short |-> FALSE, garbage |-> 0,
     txfail |-> {}, sends |-> 0, ev |-> <<>>,
     rc |-> RCODE_OK, pkt |-> <<>>, calc |-> -1, is_attached_ |-> FALSE,
     thread_map_ |-> build_thread_map(num_warps, num_threads),
     thread_order |-> order, thread_enum_cursor_ |-> 0, char_signed |-> char_signed]

---------------------------------------------------------------------------
(* SpecServe: serve_forever with one client whose bytes, disconnect and     *)
(* send failures are the environment's                                      *)

\* what a client sends before it disconnects or its connection fails
ServeScripts ==
    {<<>>,
     packetify(<<63>>, TRUE) \o packetify(<<107>>, TRUE),
     <<43>> \o packetify(<<113, 102, 84, 104, 114, 101, 97, 100, 73, 110, 102, 111>>, TRUE) \o <<43>> \o packetify(<<113, 115, 84, 104, 114, 101, 97, 100, 73, 110, 102, 111>>, TRUE),
     <<3, 45>> \o packetify(<<118, 77, 117, 115, 116, 82, 101, 112, 108, 121, 69, 109, 112, 116, 121>>, TRUE) \o packetify(<<113, 65, 116, 116, 97, 99, 104, 101, 100, 58, 49>>, TRUE),
     <<36, 63, 35, 48, 48>> \o packetify(<<63>>, TRUE),
     <<120>> \o packetify(<<>>, TRUE) \o <<36, 107, 35, 54>>,
     packetify(<<113, 88, 102, 101, 114, 58, 102, 101, 97, 116, 117, 114, 101, 115, 58, 114, 101, 97, 100, 58, 116, 97, 114, 103, 101, 116, 46, 120, 109, 108, 58, 99, 100, 48, 44, 49, 48>>, TRUE) \o packetify(<<109, 48, 44, 52>>, TRUE),
     packetify(<<113, 113>>, TRUE) \o <<36, 63>>}

ServeTxFail == {{}, {0}, {1}, {2}}

InitServe ==
    /\ hw = HwBase(SmallCfg)
    /\ state_ = StateInitialized(hw)
    /\ breakpoints_ = <<>>
    /\ transport_ = TransportConnected
    /\ poll_retries_ = MaxPollRetries
    /\ hist = <<>>
    /\ \E order \in {<<1, 2, 3, 4>>, <<4, 2, 1, 3>>} :
          stub = StubListening(2, 2, order, TRUE)

AcceptClient ==
    \E script \in ServeScripts, rxend \in {"fin", "err"}, txfail \in ServeTxFail,
       short \in BOOLEAN, garbage \in {0, 51} :
        /\ stub.pos = "accept"
        /\ stub' = [stub EXCEPT
                       !.pos = "serve", !.client_fd_ = 4, !.sends = 0,
                       !.ev = <<Ev("accept", <<>>, TRUE)>>,
                       !.rx = script, !.rxend = rxend, !.txfail = txfail,
                       !.short = short, !.garbage = garbage]
        /\ UNCHANGED <<hw, state_, breakpoints_, transport_, poll_retries_, hist>>

ServeIteration ==
    /\ stub.pos = "serve"
    /\ stub' = serve_iteration(stub)
    /\ UNCHANGED <<hw, state_, breakpoints_, transport_, poll_retries_, hist>>

NextServe == AcceptClient \/ ServeIteration

SpecServe == InitServe /\ [][NextServe]_vars

---------------------------------------------------------------------------
(* SpecEnum: one enumeration of the threads by qfThreadInfo / qsThreadInfo,  *)
(* on platforms of 1 to 192 threads, in several iteration orders of the      *)
(* unordered thread map, with the cursor a former enumeration left           *)

\* the stub while it serves a client
StubServing(num_warps, num_threads, order, char_signed) ==
    [StubListening(num_warps, num_threads, order, char_signed) EXCEPT
        !.pos = "serve", !.client_fd_ = 4, !.ev = <<Ev("accept", <<>>, TRUE)>>]

\* (num_total_warps, num_threads) of the platform
EnumPlatforms ==
    {<<1, 1>>, <<1, 2>>, <<2, 2>>, <<63, 1>>, <<16, 4>>, <<65, 1>>, <<32, 4>>, <<129, 1>>,
     <<34, 4>>, <<3, 64>>}

\* iteration orders of a map with the keys 1..n
EnumOrders(n) ==
    {[i \in 1..n |-> i], [i \in 1..n |-> n + 1 - i], [i \in 1..n |-> ((i + 6) % n) + 1]}

InitEnum ==
    /\ hw = HwBase(SmallCfg)
    /\ state_ = StateInitialized(hw)
    /\ breakpoints_ = <<>>
    /\ transport_ = TransportConnected
    /\ poll_retries_ = MaxPollRetries
    /\ hist = <<>>
    /\ \E p \in EnumPlatforms, cursor \in {0, 1} :
          \E order \in EnumOrders(p[1] * p[2]) :
              /\ stub = [StubServing(p[1], p[2], order, TRUE) EXCEPT
                            !.thread_enum_cursor_ = cursor]
              /\ {order[i] : i \in DOMAIN order} = DOMAIN stub.thread_map_

\* the payload of the last packet sent
LastSent(s) == SubSeq(s.ev[Len(s.ev)].data, 2, Len(s.ev[Len(s.ev)].data) - 3)

CmdThreadListFirst ==
    /\ Len(stub.ev) = 1
    /\ stub' = cmd_thread_list_first(stub)
    /\ UNCHANGED <<hw, state_, breakpoints_, transport_, poll_retries_, hist>>

\* the client asks for more until it is told 'l'
CmdThreadListNext ==
    /\ Len(stub.ev) > 1
    /\ LastSent(stub) # <<108>>
    /\ stub' = cmd_thread_list_next(stub)
    /\ UNCHANGED <<hw, state_, breakpoints_, transport_, poll_retries_, hist>>

NextEnum == CmdThreadListFirst \/ CmdThreadListNext

SpecEnum == InitEnum /\ [][NextEnum]_vars

---------------------------------------------------------------------------
(* SpecMap: the constructor of GDBStub on platforms of 0 to MaxMapWarps      *)
(* warps of 1, 2, 4 or 8 threads                                             *)

MaxMapWarps == 12

\* the keys of a map in ascending order
KeysAscending(map) ==
    [i \in 1..Cardinality(DOMAIN map) |->
        CHOOSE g \in DOMAIN map : Cardinality({h \in DOMAIN map : h < g}) = i - 1]

InitMap ==
    /\ hw = HwBase(SmallCfg)
    /\ \E num_total_warps \in 0..MaxMapWarps, num_threads \in {1, 2, 4, 8} :
          state_ = [StateInitialized(hw) EXCEPT
                       !.platinfo.num_total_warps = num_total_warps,
                       !.platinfo.num_threads = num_threads]
    /\ breakpoints_ = <<>>
    /\ transport_ = TransportConnected
    /\ poll_retries_ = MaxPollRetries
    /\ hist = <<>>
    /\ stub = NoStub

\* GDBStub::GDBStub(backend): get_num_warps() is platinfo.num_total_warps,
\* get_num_threads_per_warp() is platinfo.num_threads
NewGDBStub ==
    /\ stub = NoStub
    /\ stub' = StubListening(state_.platinfo.num_total_warps, state_.platinfo.num_threads,
                             KeysAscending(build_thread_map(state_.platinfo.num_total_warps,
                                                            state_.platinfo.num_threads)),
                             TRUE)
    /\ UNCHANGED <<hw, state_, breakpoints_, transport_, poll_retries_, hist>>

NextMap == NewGDBStub

SpecMap == InitMap /\ [][NextMap]_vars

---------------------------------------------------------------------------
(* SpecFrame: a payload of up to MaxPayload bytes is framed by packetify and *)
(* the packet is read back by recv_packet                                    *)

MaxPayload == 3

\* 'a', '1', '#', NUL and two bytes above 0x7f
FrameBytes == {97, 49, 35, 0, 200, 255}

RECURSIVE FramePayloads(_)
FramePayloads(n) ==
    IF n = 0 THEN {<<>>}
    ELSE FramePayloads(n - 1) \cup
         {Append(p, b) : p \in {q \in FramePayloads(n - 1) : Len(q) = n - 1}, b \in FrameBytes}

InitFrame ==
    /\ hw = HwBase(SmallCfg)
    /\ state_ = StateInitialized(hw)
    /\ breakpoints_ = <<>>
    /\ transport_ = TransportConnected
    /\ poll_retries_ = MaxPollRetries
    /\ hist = <<>>
    /\ \E char_signed, short \in BOOLEAN, garbage \in {0, 51} :
          stub = [StubServing(2, 2, <<1, 2, 3, 4>>, char_signed) EXCEPT
                     !.short = short, !.garbage = garbage]

\* the peer frames msg with packetify and sends the packet
Packetify ==
    \E msg \in FramePayloads(MaxPayload) :
        /\ Len(stub.ev) = 1
        /\ stub' = [Note(stub, "peer", msg, TRUE) EXCEPT
                       !.rx = packetify(msg, stub.char_signed)]
        /\ UNCHANGED <<hw, state_, breakpoints_, transport_, poll_retries_, hist>>

RecvPacket ==
    /\ Len(stub.ev) = 2
    /\ stub' = recv_packet(Note(stub, "iter", <<>>, TRUE))
    /\ UNCHANGED <<hw, state_, breakpoints_, transport_, poll_retries_, hist>>

NextFrame == Packetify \/ RecvPacket

SpecFrame == InitFrame /\ [][NextFrame]_vars

---------------------------------------------------------------------------
(* SpecWmem: one M packet, well-formed or not, on the memory region at the  *)
(* wrap of the address space, a request of the write possibly answered by a *)
(* NACK                                                                     *)

WmemAddrs == {<<102, 102, 102, 102, 102, 102, 102, 56>>, <<102, 102, 102, 102, 102, 102, 102, 57>>, <<102, 102, 102, 102, 102, 102, 102, 101>>}
WmemLens == {<<48>>, <<49>>, <<50>>, <<51>>, <<48, 50>>}
WmemHex == {<<>>, <<97>>, <<97, 49>>, <<97, 49, 98>>, <<97, 49, 98, 50>>, <<65, 49, 98, 50, 67, 51>>, <<122, 122>>, <<97, 49, 98, 50, 99, 51, 100>>}

\* M<addr>,<len>:<hex> with its parts, and packets without the colon or the
\* comma
WmemCmds ==
    {[cmdstr |-> <<77>> \o a \o <<44>> \o l \o <<58>> \o h, wf |-> TRUE,
      addr |-> a, len |-> l, hex |-> h] :
        a \in WmemAddrs, l \in WmemLens, h \in WmemHex}
    \cup {[cmdstr |-> c, wf |-> FALSE, addr |-> <<>>, len |-> <<>>, hex |-> <<>>] :
             c \in {<<77, 102, 102, 102, 102, 102, 102, 102, 56, 44, 50>>, <<77, 102, 102, 102, 102, 102, 102, 102, 56, 50, 58, 97, 49, 98, 50>>, <<77>>, <<77, 58, 44>>}}

WmemFaults == {NoFault, 0, 9}

InitWmem ==
    /\ hw = [HwBase(SmallCfg) EXCEPT !.halted = {0}, !.mem = MemImage]
    /\ state_ = StateInitialized(hw)
    /\ breakpoints_ = <<>>
    /\ transport_ = TransportConnected
    /\ poll_retries_ = MaxPollRetries
    /\ hist = <<>>
    /\ stub = NoStub

CmdWriteMem ==
    \E a \in WmemCmds, f \in WmemFaults :
        /\ hist = <<>>
        /\ Commit("cmd_write_mem", a, f)

NextWmem == CmdWriteMem

SpecWmem == InitWmem /\ [][NextWmem]_vars

---------------------------------------------------------------------------
(* SpecXfer: one qXfer:features:read:target.xml:<off>,<len> request, with    *)
(* offsets and lengths inside the document, at its end, beyond it and beyond *)
(* 32 bits                                                                   *)

\* 0xcdb = 3291 is the size of the document
XferOffsets ==
    {<<48>>, <<49>>, <<52, 48>>, <<99, 100, 57>>, <<99, 100, 97>>, <<99, 100, 98>>, <<99, 100, 99>>, <<49, 48, 48, 48>>, <<55, 102, 102, 102, 102, 102, 102, 102>>, <<56, 48, 48, 48, 48, 48, 48, 48>>,
     <<102, 102, 102, 102, 102, 102, 102, 102>>, <<49, 48, 48, 48, 48, 48, 48, 48, 48>>, <<49, 48, 48, 48, 48, 48, 99, 100, 97>>}

XferLengths ==
    {<<48>>, <<49>>, <<50>>, <<52, 48>>, <<99, 100, 97>>, <<99, 100, 98>>, <<102, 102, 102>>, <<56, 48, 48, 48, 48, 48, 48, 48>>, <<102, 102, 102, 102, 102, 102, 102, 102>>, <<49, 48, 48, 48, 48, 48, 48, 48, 49>>}

InitXfer ==
    /\ hw = HwBase(SmallCfg)
    /\ state_ = StateInitialized(hw)
    /\ breakpoints_ = <<>>
    /\ transport_ = TransportConnected
    /\ poll_retries_ = MaxPollRetries
    /\ hist = <<>>
    /\ stub = StubServing(1, 1, <<1>>, TRUE)

\* the client's request is noted before the handler runs
CmdQxferFeaturesRead ==
    /\ Len(stub.ev) = 1
    /\ \E off \in XferOffsets, len \in XferLengths :
          stub' = cmd_qxfer_features_read(
                      Note(stub, "peer", off \o <<44>> \o len, TRUE),
                      qxfer_prefix \o off \o <<44>> \o len)
    /\ UNCHANGED <<hw, state_, breakpoints_, transport_, poll_retries_, hist>>

NextXfer == CmdQxferFeaturesRead

SpecXfer == InitXfer /\ [][NextXfer]_vars

---------------------------------------------------------------------------
(* SpecField: set_dmreg_field, then extract_dmreg_field of its result, for   *)
(* every field of every DM register on words and values that are empty,     *)
(* full, alternating or a single bit                                        *)

FieldWords ==
    {{}, WordBits, {b \in WordBits : b % 2 = 0}, {b \in WordBits : b % 2 = 1}}
    \cup {{b} : b \in WordBits}

InitField ==
    /\ hw = HwBase(SmallCfg)
    /\ state_ = StateInitialized(hw)
    /\ breakpoints_ = <<>>
    /\ transport_ = TransportConnected
    /\ poll_retries_ = MaxPollRetries
    /\ stub = NoStub
    /\ \E reg \in DMReg_t, reg_value \in FieldWords, field_value \in FieldWords :
          \E fieldname \in DOMAIN DM_REGS[reg] :
              hist = <<[op |-> "input", reg |-> reg, fieldname |-> fieldname,
                        reg_value |-> reg_value, field_value |-> field_value]>>

SetDmregField ==
    /\ Len(hist) = 1
    /\ hist' = Append(hist, [op |-> "set_dmreg_field",
                             val |-> set_dmreg_field(hist[1].reg, hist[1].fieldname,
                                                     hist[1].reg_value, hist[1].field_value)])
    /\ UNCHANGED <<hw, state_, breakpoints_, transport_, poll_retries_, stub>>

ExtractDmregField ==
    /\ Len(hist) = 2
    /\ hist' = Append(hist, [op |-> "extract_dmreg_field",
                             val |-> extract_dmreg_field(hist[1].reg, hist[1].fieldname,
                                                         hist[2].val)])
    /\ UNCHANGED <<hw, state_, breakpoints_, transport_, poll_retries_, stub>>

NextField == SetDmregField \/ ExtractDmregField

SpecField == InitField /\ [][NextField]_vars

---------------------------------------------------------------------------
(* SpecPtr: a selection of a thread or a status query, any request of which  *)
(* may be answered by a NACK, or one after the other, and then an operation *)
(* on the selected thread, on a platform of two halted warps                 *)

PtrPointers == {<<1, 0>>, <<1, 1>>, <<0, 1>>}
PtrFaults == {NoFault} \cup 0..12

\* the operations that act on the thread DSELECT points at
PtrUses ==
    {[op |-> "get_warp_pc", args |-> <<>>],
     [op |-> "set_warp_pc", args |-> [pc |-> Bits(21930)]],
     [op |-> "step_warp", args |-> <<>>],
     [op |-> "inject_instruction", args |-> [instruction |-> asm_addi_t0_4]],
     [op |-> "read_gpr", args |-> [regnum |-> 1]],
     [op |-> "write_gpr", args |-> [regnum |-> 1, value |-> Bits(21930)]],
     [op |-> "read_csr", args |-> [regaddr |-> RV_CSR_MSCRATCH]],
     [op |-> "read_mem", args |-> [addr |-> MemAddr(0), n |-> 1]]}

PtrUseOps == {u.op : u \in PtrUses}

InitPtr ==
    /\ hw = [HwBase(SmallCfg) EXCEPT !.halted = {0, 1}, !.mem = MemImage]
    /\ state_ = StateInitialized(hw)
    /\ breakpoints_ = <<>>
    /\ transport_ = TransportConnected
    /\ poll_retries_ = MaxPollRetries
    /\ hist = <<>>
    /\ stub = NoStub

PtrSelectWarpThread ==
    \E p \in PtrPointers, f \in PtrFaults :
        /\ hist = <<>>
        /\ Commit("select_warp_thread", [g_wid |-> p[1], tid |-> p[2]], f)

PtrGetWarpStatus ==
    \E fl \in SelFlags, f \in PtrFaults :
        /\ Len(hist) <= 1
        /\ \A i \in DOMAIN hist : hist[i].op = "select_warp_thread"
        /\ Commit("get_warp_status", [include_pc |-> fl[1], include_hacause |-> fl[2]], f)

PtrUse ==
    \E u \in PtrUses :
        /\ hist # <<>>
        /\ hist[Len(hist)].op \notin PtrUseOps
        /\ Commit(u.op, u.args, NoFault)

NextPtr == PtrSelectWarpThread \/ PtrGetWarpStatus \/ PtrUse

SpecPtr == InitPtr /\ [][NextPtr]_vars

---------------------------------------------------------------------------
(* SpecMemFault: one read_mem, write_mem or set_breakpoint on a halted,      *)
(* selected thread, with every request of the sequence in turn answered by  *)
(* a NACK                                                                    *)

MaxMemFaultAt == 120
MemFaults == {NoFault} \cup 0..MaxMemFaultAt
MemFaultAddrs == {MemAddr(0), MemAddr(5)}
MemFaultLens == {1, 4}

FaultyReadMem ==
    \E addr \in MemFaultAddrs, n \in MemFaultLens, f \in MemFaults :
        /\ hist = <<>>
        /\ Commit("read_mem", [addr |-> addr, n |-> n], f)

FaultyWriteMem ==
    \E addr \in MemFaultAddrs, n \in MemFaultLens, f \in MemFaults :
        /\ hist = <<>>
        /\ Commit("write_mem", [addr |-> addr, n |-> n, data |-> DataOf(n)], f)

FaultySetBreakpoint ==
    \E addr \in MemFaultAddrs, f \in MemFaults :
        /\ hist = <<>>
        /\ Commit("set_breakpoint", [addr |-> addr, n |-> 4], f)

NextMemFault == FaultyReadMem \/ FaultyWriteMem \/ FaultySetBreakpoint

SpecMemFault == InitMem /\ [][NextMemFault]_vars

---------------------------------------------------------------------------
(* The TCP transport on its socket.  The debug server answers every command *)
(* with one line, in the order of the commands, after a delay of its own.   *)
(* wire holds the bytes of the answers that the client has not received      *)
(* yet; sent counts the commands sent and taken the lines consumed, so that *)
(* line number k of the stream is the server's answer to command number k.  *)

\* strfmt("%08x", W)
Fmt08x(W) == [k \in 1..8 |-> HexDigit(Hex8(W)[k])]

\* TCPTransport::_send_buf: the command goes out, and the server will answer
\* it with the line answer
TCPTransport_send_buf(t, answer) ==
    IF ~t.connected THEN [t EXCEPT !.rc = RCODE_ERROR]
    ELSE [t EXCEPT !.rc = RCODE_OK, !.sent = @ + 1, !.wire = @ \o answer \o <<10>>]

\* the first line of recv_buf_ is handed out and erased
recv_line(t, pos) ==
    [t EXCEPT !.rc = RCODE_OK, !.out = SubSeq(t.recv_buf_, 1, pos),
              !.recv_buf_ = SubSeq(@, pos + 2, Len(@)), !.taken = @ + 1]

\* the loop of _recv_buf after the recv_data calls that brought n more bytes:
\* a full line is handed out, and without one the timeout has passed
recv_loop(t, n) ==
    IF find(t.recv_buf_ \o SubSeq(t.wire, 1, n), 10) >= 0
    THEN recv_line([t EXCEPT !.recv_buf_ = @ \o SubSeq(t.wire, 1, n),
                             !.wire = SubSeq(@, n + 1, Len(@))],
                   find(t.recv_buf_ \o SubSeq(t.wire, 1, n), 10))
    ELSE [t EXCEPT !.rc = RCODE_TIMEOUT, !.out = <<>>,
                   !.recv_buf_ = @ \o SubSeq(t.wire, 1, n),
                   !.wire = SubSeq(@, n + 1, Len(@))]

\* TCPTransport::_recv_buf; n bytes arrive before the timeout.  A line that
\* is already in recv_buf_ is handed out without a recv_data call
TCPTransport_recv_buf(t, n) ==
    IF ~t.connected THEN [t EXCEPT !.rc = RCODE_ERROR]
    ELSE IF find(t.recv_buf_, 10) >= 0 THEN recv_line(t, find(t.recv_buf_, 10))
    ELSE recv_loop(t, n)

\* the parse of the response rbuf of read_reg; rbuf[0] of an empty string is
\* the terminating NUL
read_reg_parse(t, rbuf) ==
    IF rbuf # <<>> /\ rbuf[1] = 43
    THEN IF Len(rbuf) # 9 THEN [t EXCEPT !.rc = RCODE_ERROR]
         ELSE [t EXCEPT !.rc = RCODE_OK, !.data = strtoul16(Tail(rbuf))]
    ELSE [t EXCEPT !.rc = RCODE_ERROR]

read_reg_recv(t) == IF t.rc # RCODE_OK THEN t ELSE read_reg_parse(t, t.out)

read_reg_sent(t, n) == IF t.rc # RCODE_OK THEN t ELSE read_reg_recv(TCPTransport_recv_buf(t, n))

\* Transport::read_reg on the TCP transport
Transport_read_reg(t, answer, n) == read_reg_sent(TCPTransport_send_buf(t, answer), n)

\* the parse of the response rbuf of write_reg
write_reg_parse(t, rbuf) ==
    IF rbuf # <<>> /\ rbuf[1] = 43 THEN [t EXCEPT !.rc = RCODE_OK]
    ELSE [t EXCEPT !.rc = RCODE_ERROR]

write_reg_recv(t) == IF t.rc # RCODE_OK THEN t ELSE write_reg_parse(t, t.out)

write_reg_sent(t, n) == IF t.rc # RCODE_OK THEN t ELSE write_reg_recv(TCPTransport_recv_buf(t, n))

\* Transport::write_reg on the TCP transport
Transport_write_reg(t, answer, n) == write_reg_sent(TCPTransport_send_buf(t, answer), n)

---------------------------------------------------------------------------
(* SpecWire: up to MaxWireOps register reads and writes over the TCP         *)
(* transport; the server's answers are ACKs, NACKs or malformed lines, and   *)
(* arrive in time, late, or in part                                          *)

MaxWireOps == 2

TCPConnected ==
    [present |-> TRUE, connected |-> TRUE, recv_buf_ |-> <<>>, wire |-> <<>>,
     sent |-> 0, taken |-> 0, rc |-> RCODE_OK, out |-> <<>>, data |-> {}]

\* the value the server reads for command number k
WireValue(k) == Bits(4096 + k)

\* the server's answers to a read: the value, a NACK, a short line, a line
\* that is neither
WireReadAnswers(k) == {<<43>> \o Fmt08x(WireValue(k)), <<45>>, <<43, 49, 50>>, <<63>>}
WireWriteAnswers == {<<43>>, <<45>>, <<63>>}

\* the bytes that may arrive before the timeout: none, the first two, or up
\* to the end of a line
WireArrivals(t, answer) ==
    {0, 2} \cup {i \in 1..(Len(t.wire) + Len(answer) + 1) :
                    (t.wire \o answer \o <<10>>)[i] = 10}

InitWire ==
    /\ hw = HwBase(SmallCfg)
    /\ state_ = StateInitialized(hw)
    /\ breakpoints_ = <<>>
    /\ transport_ = TCPConnected
    /\ poll_retries_ = MaxPollRetries
    /\ hist = <<>>
    /\ stub = NoStub

\* a completed verb: the number of its command, the number of the line it
\* consumed (0 if none), the line, the return code and the data
WireRecord(op, answer, t) ==
    [op |-> op, cmd |-> t.sent,
     line |-> IF t.taken > transport_.taken THEN t.taken ELSE 0,
     answer |-> answer, out |-> t.out, rc |-> t.rc, data |-> t.data]

WireReadReg ==
    /\ Len(hist) < MaxWireOps
    /\ \E answer \in WireReadAnswers(transport_.sent + 1) :
          \E n \in WireArrivals(transport_, answer) :
              /\ transport_' = Transport_read_reg(transport_, answer, n)
              /\ hist' = Append(hist, WireRecord("read_reg", answer, transport_'))
    /\ UNCHANGED <<hw, state_, breakpoints_, poll_retries_, stub>>

WireWriteReg ==
    /\ Len(hist) < MaxWireOps
    /\ \E answer \in WireWriteAnswers :
          \E n \in WireArrivals(transport_, answer) :
              /\ transport_' = Transport_write_reg(transport_, answer, n)
              /\ hist' = Append(hist, WireRecord("write_reg", answer, transport_'))
    /\ UNCHANGED <<hw, state_, breakpoints_, poll_retries_, stub>>

NextWire == WireReadReg \/ WireWriteReg

SpecWire == InitWire /\ [][NextWire]_vars

---------------------------------------------------------------------------
(* SpecRun: one injection or one step on a two-warp platform, the request   *)
(* busy for 0 to MaxLatency reads of DCTRL, with 1 to MaxPollRetries polls, *)
(* with and without a thread selected, and with every request in turn       *)
(* answered by a NACK                                                        *)

MaxRunFaultAt == 8
RunFaults == {NoFault} \cup 0..MaxRunFaultAt

InitRun ==
    /\ \E l \in 0..MaxLatency, H \in {{0}, {}} :
          hw = [HwBase(SmallCfg) EXCEPT !.halted = H, !.latency = l]
    /\ state_ \in {StateInitialized(hw), StateUnselected(hw)}
    /\ breakpoints_ = <<>>
    /\ transport_ = TransportConnected
    /\ poll_retries_ \in 1..MaxPollRetries
    /\ hist = <<>>
    /\ stub = NoStub

RunInject ==
    \E instruction \in ThreadInstrs, f \in RunFaults :
        /\ hist = <<>>
        /\ Commit("inject_instruction", [instruction |-> instruction], f)

RunStep ==
    \E f \in RunFaults :
        /\ hist = <<>>
        /\ Commit("step_warp", <<>>, f)

NextRun == RunInject \/ RunStep

SpecRun == InitRun /\ [][NextRun]_vars

---------------------------------------------------------------------------
(* SpecQuery: a query of the current-thread pointer, set or unset, cached or *)
(* fetched from the DM, and then an operation that needs the pointer         *)

InitQuery ==
    /\ \E l \in 0..MaxLatency, H \in {{0}, {}, {0, 1}} :
          hw = [HwBase(SmallCfg) EXCEPT !.halted = H, !.latency = l, !.mem = MemImage]
    /\ state_ \in {StateInitialized(hw), StateUnselected(hw)}
    /\ breakpoints_ = <<>>
    /\ transport_ = TransportConnected
    /\ poll_retries_ = MaxPollRetries
    /\ hist = <<>>
    /\ stub = NoStub

QueryPointer ==
    \E force_fetch \in BOOLEAN, f \in {NoFault, 0} :
        /\ hist = <<>>
        /\ Commit("get_selected_warp_thread", [force_fetch |-> force_fetch], f)

QueryUse ==
    \E u \in PtrUses :
        /\ Len(hist) = 1
        /\ Commit(u.op, u.args, NoFault)

NextQuery == QueryPointer \/ QueryUse

SpecQuery == InitQuery /\ [][NextQuery]_vars

---------------------------------------------------------------------------
(* SpecPlat: one fetch_platform_info on a two-warp platform, with warp 0   *)
(* running, halted, inactive or not leaving the halted state, with and     *)
(* without a thread selected, and with a transport fault at any request    *)

MaxPlatFaultAt == 70
PlatFaults == {NoFault} \cup 0..MaxPlatFaultAt

\* (active, halted, stuck) combinations of the two warps
PlatWarpStates ==
    {<<{0, 1}, {}, {}>>, <<{0, 1}, {0}, {}>>, <<{0, 1}, {1}, {}>>,
     <<{0, 1}, {0, 1}, {}>>, <<{0, 1}, {}, {0}>>, <<{1}, {}, {}>>}

InitPlat ==
    /\ \E ws \in PlatWarpStates, l \in 0..MaxLatency :
          hw = [HwBase(SmallCfg) EXCEPT !.active = ws[1], !.halted = ws[2],
                                        !.stuck = ws[3], !.latency = l]
    /\ state_ \in {StateInitialized(hw), StateUnselected(hw),
                   [StateInitialized(hw) EXCEPT !.selected_wid = 1,
                                                !.selected_warp_pc = hw.pc[1]]}
    /\ breakpoints_ = <<>>
    /\ transport_ = TransportConnected
    /\ poll_retries_ = MaxPollRetries
    /\ hist = <<>>
    /\ stub = NoStub

FetchPlatformInfo ==
    \E f \in PlatFaults :
        /\ hist = <<>>
        /\ Commit("fetch_platform_info", [none |-> 0], f)

NextPlat == FetchPlatformInfo

SpecPlat == InitPlat /\ [][NextPlat]_vars

---------------------------------------------------------------------------
(* SpecLast: the selection of the last warp alone, on platforms of one to  *)
(* three windows, after another selection, with a transport fault at any   *)
(* request                                                                  *)

LastWarpCounts == {1, 2, 32, 33, 64, 65}

MaxLastFaultAt == 12
LastFaults == {NoFault} \cup 0..MaxLastFaultAt

InitLast ==
    /\ \E n \in LastWarpCounts : hw = HwBase(Cfg(n))
    /\ state_ \in {StateInitialized(hw), StateUnselected(hw)}
    /\ breakpoints_ = <<>>
    /\ transport_ = TransportConnected
    /\ poll_retries_ = MaxPollRetries
    /\ hist = <<>>
    /\ stub = NoStub

\* an earlier selection: the first warp, the first and the last, or all but
\* the last of the first window
SelectBefore ==
    \E wids \in {<<0>>, <<0, state_.platinfo.num_total_warps - 1>>,
                 <<0, 30, 31, 32>>} :
        /\ hist = <<>>
        /\ Commit("select_warps", [wids |-> wids], NoFault)

SelectLast ==
    \E f \in LastFaults :
        /\ Len(hist) <= 1
        /\ Commit("select_warps", [wids |-> <<state_.platinfo.num_total_warps - 1>>], f)

NextLast == SelectBefore \/ SelectLast

SpecLast == InitLast /\ [][NextLast]_vars

---------------------------------------------------------------------------
(* SpecReject: serve_forever with a client whose first packet carries a    *)
(* checksum field that is not the sum of its payload                       *)

\* "$?#00", "$?#13", "$#zz", "$m0,7#zz", "$m0,7#0x" and "$k#6c"
BadPackets ==
    {<<36, 63, 35, 48, 48>>,
     <<36, 63, 35, 49, 51>>,
     <<36, 35, 122, 122>>,
     <<36, 109, 48, 44, 55, 35, 122, 122>>,
     <<36, 109, 48, 44, 55, 35, 48, 120>>,
     <<36, 107, 35, 54, 99>>}

\* what the client sends after it: nothing, or the packet of '?'
RejectTails == {<<>>, packetify(<<63>>, TRUE)}

\* the byte in memory behind checksum_buf: NUL, '3' or 'f'
RejectGarbage == {0, 51, 102}

AcceptBadClient ==
    \E bad \in BadPackets, tail \in RejectTails, rxend \in {"fin", "err"},
       short \in BOOLEAN, garbage \in RejectGarbage :
        /\ stub.pos = "accept"
        /\ stub.ev = <<>>
        /\ stub' = [stub EXCEPT
                       !.pos = "serve", !.client_fd_ = 4, !.sends = 0,
                       !.ev = <<Ev("accept", <<>>, TRUE)>>,
                       !.rx = bad \o tail, !.rxend = rxend, !.txfail = {},
                       !.short = short, !.garbage = garbage]
        /\ UNCHANGED <<hw, state_, breakpoints_, transport_, poll_retries_, hist>>

NextReject == AcceptBadClient \/ ServeIteration

SpecReject == InitServe /\ [][NextReject]_vars

---------------------------------------------------------------------------
(* Reading the history *)

\* the state right after the i-th operation
PostOf(i) == IF i = Len(hist) THEN Snapshot ELSE hist[i + 1].pre

\* the write requests of a log, in order
Writes(log) == SelectSeq(log, LAMBDA e : e.k = "w")

\* bits lsb..msb of word W, as a word
FieldOf(W, msb, lsb) == {b - lsb : b \in {x \in W : lsb <= x /\ x <= msb}}

Answered(log) == \A j \in DOMAIN log : log[j].ok

---------------------------------------------------------------------------
(* Claims *)

\* C6: after select_warps(wids) returns OK, window i's WMASK has bit b set
\* exactly when 32*i+b is a listed in-range warp id, and the write requests
\* are, window by window, DSELECT with winsel = i followed by WMASK.
C6_SelectWarpsMask ==
    \A i \in DOMAIN hist :
        (hist[i].op = "select_warps" /\ hist[i].rc = RCODE_OK) =>
            LET n == hist[i].pre.st.platinfo.num_total_warps
                num_win == (n + 31) \div 32
                listed == {x \in Range(hist[i].args.wids) : 0 <= x /\ x < n}
                W == Writes(hist[i].log)
            IN  /\ \A win \in 0..(num_win - 1) : \A b \in WordBits :
                       b \in PostOf(i).hw.wmask[win] <=> (32 * win + b) \in listed
                /\ Len(W) = 2 * num_win
                /\ \A win \in 0..(num_win - 1) :
                       /\ W[2 * win + 1].reg = "DSELECT"
                       /\ FieldOf(W[2 * win + 1].v, 31, 22) = Bits(win)
                       /\ W[2 * win + 2].reg = "WMASK"
                       /\ W[2 * win + 2].v = PostOf(i).hw.wmask[win]

C6_Witness ==
    \E i \in DOMAIN hist :
        /\ hist[i].op = "select_warps" /\ hist[i].rc = RCODE_OK
        /\ hist[i].args.wids = <<1, BigNumWarps, -1, 33>>
        /\ PostOf(i).hw.wmask[0] = {1} /\ PostOf(i).hw.wmask[1] = {1}

\* C7: select_warp_thread(w, t) returning OK, followed by
\* get_selected_warp_thread, yields (w, t) from the cache and from the DM.
C7_SelectThenGet ==
    \A i \in DOMAIN hist :
        (hist[i].op = "select_warp_thread" /\ hist[i].rc = RCODE_OK) =>
            /\ 0 <= hist[i].args.g_wid /\ 0 <= hist[i].args.tid
            /\ FieldOf(PostOf(i).hw.dselect, 21, 7) = Bits(hist[i].args.g_wid)
            /\ FieldOf(PostOf(i).hw.dselect, 6, 0) = Bits(hist[i].args.tid)
            /\ (i < Len(hist) /\ hist[i + 1].op = "get_selected_warp_thread"
                    /\ hist[i + 1].rc = RCODE_OK)
                  => hist[i + 1].val = <<hist[i].args.g_wid, hist[i].args.tid>>

C7_Witness ==
    \E i \in DOMAIN hist :
        /\ i < Len(hist)
        /\ hist[i].op = "select_warp_thread" /\ hist[i].rc = RCODE_OK
        /\ hist[i].args.g_wid = 33 /\ hist[i].args.tid = 1
        /\ hist[i + 1].op = "get_selected_warp_thread" /\ hist[i + 1].args.force_fetch
        /\ hist[i + 1].val = <<33, 1>>

\* C8: after get_warp_status returns, the current-thread pointer (the cached
\* selection and DSELECT.warpsel/threadsel) is what it was before the call.
C8_StatusRestoresPointer ==
    \A i \in DOMAIN hist :
        hist[i].op = "get_warp_status" =>
            /\ PostOf(i).st.selected_wid = hist[i].pre.st.selected_wid
            /\ PostOf(i).st.selected_tid = hist[i].pre.st.selected_tid
            /\ FieldOf(PostOf(i).hw.dselect, 21, 0) = FieldOf(hist[i].pre.hw.dselect, 21, 0)

\* C8 for a call entered with a thread selected
C8_StatusRestoresSetPointer ==
    \A i \in DOMAIN hist :
        (hist[i].op = "get_warp_status" /\ hist[i].pre.st.selected_wid >= 0) =>
            /\ PostOf(i).st.selected_wid = hist[i].pre.st.selected_wid
            /\ PostOf(i).st.selected_tid = hist[i].pre.st.selected_tid
            /\ FieldOf(PostOf(i).hw.dselect, 21, 0) = FieldOf(hist[i].pre.hw.dselect, 21, 0)

\* C8 for a call entered with a thread selected that returns RCODE_OK
C8_StatusRestoresSetPointerWhenOk ==
    \A i \in DOMAIN hist :
        (hist[i].op = "get_warp_status" /\ hist[i].pre.st.selected_wid >= 0
         /\ hist[i].rc = RCODE_OK) =>
            /\ PostOf(i).st.selected_wid = hist[i].pre.st.selected_wid
            /\ PostOf(i).st.selected_tid = hist[i].pre.st.selected_tid
            /\ FieldOf(PostOf(i).hw.dselect, 21, 0) = FieldOf(hist[i].pre.hw.dselect, 21, 0)

\* C9: a successful wr_field reads the register once and writes back the word
\* read with only the field's bits replaced by the low bits of the value; no
\* other register is written.
C9_WrFieldReadModifyWrite ==
    \A i \in DOMAIN hist :
        hist[i].op = "dmreg_wrfield" =>
            LET h == hist[i]
            IN  /\ \A j \in DOMAIN h.log : h.log[j].reg = h.args.reg
                /\ h.rc = RCODE_OK =>
                      LET f == DM_REGS[h.args.reg][h.args.field]
                          rd == h.log[1]
                          wr == h.log[2]
                      IN  /\ Len(h.log) = 2
                          /\ rd.k = "r" /\ wr.k = "w"
                          /\ rd.v = HwRead(h.pre.hw, h.args.reg)
                          /\ \A b \in WordBits :
                                b \in wr.v <=>
                                    IF f.lsb <= b /\ b <= f.msb
                                    THEN (b - f.lsb) \in h.args.value
                                    ELSE b \in rd.v

C9_Witness ==
    \E i \in DOMAIN hist :
        /\ hist[i].op = "dmreg_wrfield" /\ hist[i].rc = RCODE_OK
        /\ hist[i].args.reg = "DCONFIG" /\ hist[i].args.field = "resethaltreqcyc"
        /\ hist[i].args.value = {0, 2}
        /\ hist[i].log[1].v = WordBits
        /\ hist[i].log[2].v = WordBits \ {27}

\* C10: poll_field issues at most max_retries reads; when every read is
\* answered it returns OK exactly at the first read whose field equals the
\* expected value, and otherwise Timeout after max_retries reads with the
\* last observed field value in the out-parameter.
C10_PollField ==
    \A i \in DOMAIN hist :
        (hist[i].op = "dmreg_pollfield"
            /\ has_dmreg_field(hist[i].args.reg, hist[i].args.field)) =>
            LET h == hist[i]
                f == DM_REGS[h.args.reg][h.args.field]
                M == IF h.args.max_retries = -1 THEN poll_retries_ ELSE h.args.max_retries
                n == Len(h.log)
                obs(j) == FieldOf(h.log[j].v, f.msb, f.lsb)
            IN  /\ n <= M
                /\ \A j \in 1..n : h.log[j].k = "r" /\ h.log[j].reg = h.args.reg
                /\ Answered(h.log) =>
                      /\ h.rc \in {RCODE_OK, RCODE_TIMEOUT}
                      /\ \A j \in 1..(n - 1) : obs(j) # h.args.exp_value
                      /\ h.rc = RCODE_OK =>
                            n >= 1 /\ obs(n) = h.args.exp_value /\ h.val = obs(n)
                      /\ h.rc = RCODE_TIMEOUT =>
                            /\ n = M
                            /\ n >= 1 => (obs(n) # h.args.exp_value /\ h.val = obs(n))

C10_Witness ==
    \E i \in DOMAIN hist :
        /\ hist[i].op = "dmreg_pollfield" /\ hist[i].rc = RCODE_OK
        /\ hist[i].args.field = "injectstate"
        /\ Len(hist[i].log) = 2
        /\ hist[i].log[1].v # hist[i].log[2].v

---------------------------------------------------------------------------
(* CSR and memory claims *)

\* the thread an operation started on
ThreadOf(rec) == <<rec.pre.st.selected_wid, rec.pre.st.selected_tid>>

OnHaltedThread(rec) ==
    /\ rec.pre.st.selected_wid >= 0 /\ rec.pre.st.selected_tid >= 0
    /\ rec.pre.st.selected_wid \in rec.pre.hw.halted

\* C1: after read_csr or write_csr started on a selected, halted thread, t0
\* of that thread holds the value it had before the call, whatever the
\* return code
C1_CsrRestoresT0 ==
    \A i \in DOMAIN hist :
        (hist[i].op \in {"read_csr", "write_csr"} /\ OnHaltedThread(hist[i]))
        => PostOf(i).hw.gpr[ThreadOf(hist[i])][T0]
               = hist[i].pre.hw.gpr[ThreadOf(hist[i])][T0]

\* C1 on the success path only: a call that returns RCODE_OK has restored t0
C1_CsrRestoresT0WhenOk ==
    \A i \in DOMAIN hist :
        (hist[i].op \in {"read_csr", "write_csr"} /\ OnHaltedThread(hist[i])
         /\ hist[i].rc = RCODE_OK)
        => PostOf(i).hw.gpr[ThreadOf(hist[i])][T0]
               = hist[i].pre.hw.gpr[ThreadOf(hist[i])][T0]

\* C2: write_mem(addr, data) returning OK, directly followed by
\* read_mem(addr, len(data)) returning OK, reads back exactly data
C2_WriteThenRead ==
    \A i \in DOMAIN hist :
        (i < Len(hist)
         /\ hist[i].op = "write_mem" /\ hist[i].rc = RCODE_OK
         /\ hist[i + 1].op = "read_mem" /\ hist[i + 1].rc = RCODE_OK
         /\ hist[i + 1].args.addr = hist[i].args.addr
         /\ hist[i + 1].args.n = Len(hist[i].args.data))
        => hist[i + 1].data = hist[i].args.data

\* a write with a leading partial word, a full word and a trailing partial
\* word, crossing the wrap of the address space, then read back
C2_Witness ==
    \E i \in DOMAIN hist :
        /\ i < Len(hist)
        /\ hist[i].op = "write_mem" /\ hist[i].rc = RCODE_OK
        /\ hist[i + 1].op = "read_mem" /\ hist[i + 1].rc = RCODE_OK
        /\ hist[i].args.addr = MemAddr(3) /\ hist[i].args.n = 6
        /\ hist[i + 1].data = hist[i].args.data
        /\ \E j \in 3..8 : MemByte(hist[i].pre.hw.mem, MemAddr(j)) # hist[i].args.data[j - 2]

\* C3: write_mem(addr, data) returning OK changes no byte outside
\* [addr, addr + len(data)), also in the words it only partly covers
C3_WriteMemFrame ==
    \A i \in DOMAIN hist :
        (hist[i].op = "write_mem" /\ hist[i].rc = RCODE_OK)
        => \A j \in MemOffsets :
               (j < MemOffset(hist[i].args.addr)
                \/ j >= MemOffset(hist[i].args.addr) + hist[i].args.n)
               => MemByte(PostOf(i).hw.mem, MemAddr(j))
                      = MemByte(hist[i].pre.hw.mem, MemAddr(j))

\* a write that starts and ends inside a word and did change memory
C3_Witness ==
    \E i \in DOMAIN hist :
        /\ hist[i].op = "write_mem" /\ hist[i].rc = RCODE_OK
        /\ Mod4(hist[i].args.addr) # 0
        /\ (MemOffset(hist[i].args.addr) + hist[i].args.n) % 4 # 0
        /\ \A j \in 0..(hist[i].args.n - 1) :
               MemByte(PostOf(i).hw.mem, Add32(hist[i].args.addr, Bits(j)))
                   = hist[i].args.data[j + 1]
        /\ PostOf(i).hw.mem # hist[i].pre.hw.mem

\* the four bytes at addr, lowest address first
BytesAt(mem, addr) == [k \in 1..4 |-> MemByte(mem, Add32(addr, Bits(k - 1)))]

SetThenRemove(i) ==
    /\ i < Len(hist)
    /\ hist[i].op = "set_breakpoint" /\ hist[i].rc = RCODE_OK
    /\ hist[i + 1].op = "remove_breakpoint" /\ hist[i + 1].rc = RCODE_OK
    /\ hist[i + 1].args.addr = hist[i].args.addr

\* C4 as stated: after set_breakpoint(addr) then remove_breakpoint(addr),
\* both OK, the four bytes at addr are what they were before set_breakpoint
C4_SetRemoveRestores ==
    \A i \in DOMAIN hist :
        SetThenRemove(i)
        => BytesAt(PostOf(i + 1).hw.mem, hist[i].args.addr)
               = BytesAt(hist[i].pre.hw.mem, hist[i].args.addr)

\* C4 amended: when no breakpoint was set at addr before set_breakpoint(addr),
\* set_breakpoint(addr) then remove_breakpoint(addr), both OK, leave the four
\* bytes at addr as they were before set_breakpoint
C4_FreshSetRemoveRestores ==
    \A i \in DOMAIN hist :
        (SetThenRemove(i) /\ hist[i].args.addr \notin DOMAIN hist[i].pre.bps)
        => BytesAt(PostOf(i + 1).hw.mem, hist[i].args.addr)
               = BytesAt(hist[i].pre.hw.mem, hist[i].args.addr)

\* a fresh breakpoint at an unaligned address put the ebreak bytes in memory
\* and its removal took them out again
C4_Witness ==
    \E i \in DOMAIN hist :
        /\ SetThenRemove(i)
        /\ hist[i].args.addr \notin DOMAIN hist[i].pre.bps
        /\ Mod4(hist[i].args.addr) # 0
        /\ BytesAt(hist[i + 1].pre.hw.mem, hist[i].args.addr) = WordBytes(asm_ebreak)
        /\ BytesAt(PostOf(i + 1).hw.mem, hist[i].args.addr) # WordBytes(asm_ebreak)
        /\ hist[i].args.addr \notin DOMAIN PostOf(i + 1).bps

\* C5: set_breakpoint(addr) while an enabled breakpoint exists at addr
\* returns OK, issues no request to the target, and leaves memory and the
\* breakpoint table as they were
C5_SetBreakpointIdempotent ==
    \A i \in DOMAIN hist :
        (hist[i].op = "set_breakpoint"
         /\ hist[i].args.addr \in DOMAIN hist[i].pre.bps
         /\ hist[i].pre.bps[hist[i].args.addr].enabled)
        => /\ hist[i].rc = RCODE_OK
           /\ hist[i].log = <<>>
           /\ PostOf(i).hw = hist[i].pre.hw
           /\ PostOf(i).bps = hist[i].pre.bps

\* a second set_breakpoint at an address whose entry records the original
\* word while memory holds the ebreak word
C5_Witness ==
    \E i \in DOMAIN hist :
        /\ hist[i].op = "set_breakpoint"
        /\ hist[i].args.addr \in DOMAIN hist[i].pre.bps
        /\ hist[i].pre.bps[hist[i].args.addr].enabled
        /\ BytesAt(hist[i].pre.hw.mem, hist[i].args.addr) = WordBytes(asm_ebreak)
        /\ PostOf(i).bps[hist[i].args.addr].replaced_instr
               = BytesWord(BytesAt(MemImage, hist[i].args.addr))

---------------------------------------------------------------------------
(* Claims on wake_dm *)

\* the wake attempts of a call: each writes DCTRL once, with dmactive set
WakeAttempts(log) ==
    Len(SelectSeq(log, LAMBDA e : e.k = "w" /\ e.reg = "DCTRL" /\ 31 \in e.v))

\* a wake_dm call that read ndmreset = 0 and dmactive = 0 and had every
\* request answered
WakeCase(i) ==
    /\ hist[i].op = "wake_dm"
    /\ Answered(hist[i].log)
    /\ hist[i].pre.hw.resetbusy = 0
    /\ ~hist[i].pre.hw.dmactive

\* C11: wake_dm, reading dmactive = 0, makes at most DMWAKE_ATTEMPT_RETRIES
\* attempts (write dmactive = 1, poll for dmactive = 1); it returns OK once
\* an attempt has observed dmactive = 1, and otherwise it makes every one of
\* the attempts and returns RCODE_ERROR
C11_WakeRetries ==
    \A i \in DOMAIN hist :
        WakeCase(i) =>
            /\ WakeAttempts(hist[i].log) \in 1..DMWAKE_ATTEMPT_RETRIES
            /\ hist[i].rc = RCODE_OK => PostOf(i).hw.dmactive
            /\ hist[i].rc # RCODE_OK =>
                   /\ hist[i].rc = RCODE_ERROR
                   /\ WakeAttempts(hist[i].log) = DMWAKE_ATTEMPT_RETRIES

\* what the code does instead: one attempt, and the code of its poll
C11_WakeSingleAttempt ==
    \A i \in DOMAIN hist :
        WakeCase(i) =>
            /\ WakeAttempts(hist[i].log) = 1
            /\ hist[i].rc \in {RCODE_OK, RCODE_TIMEOUT}
            /\ hist[i].rc = RCODE_OK => PostOf(i).hw.dmactive

\* a wake_dm call on a sleeping DM that gives up
C11_WakeGivesUp ==
    \E i \in DOMAIN hist : WakeCase(i) /\ hist[i].rc # RCODE_OK


---------------------------------------------------------------------------
(* Claims on halt_warps and resume_warps *)

\* a completed call of op on a list of existing warps, every request answered
CtlCase(i, op) ==
    /\ hist[i].op = op
    /\ Answered(hist[i].log)
    /\ \A wid \in Range(hist[i].args.wids) :
           wid >= 0 /\ wid < hist[i].pre.st.platinfo.num_total_warps

\* the positions of the log that write a request bit of DCTRL
RequestAt(log, bit) ==
    {j \in DOMAIN log : log[j].k = "w" /\ log[j].reg = "DCTRL" /\ bit \in log[j].v}

\* the log writes the selection mask of wids, window by window, then DCTRL
\* with the request bit set, and reads WSTATUS only after that
CtlOrder(i, bit) ==
    LET log == hist[i].log
        W == Writes(log)
        num_win == (hist[i].pre.st.platinfo.num_total_warps + 31) \div 32
    IN  /\ Len(W) > 2 * num_win
        /\ \A win \in 0..(num_win - 1) :
               /\ W[2 * win + 1].reg = "DSELECT"
               /\ FieldOf(W[2 * win + 1].v, 31, 22) = Bits(win)
               /\ W[2 * win + 2].reg = "WMASK"
               /\ W[2 * win + 2].v =
                      {wid % 32 : wid \in {x \in Range(hist[i].args.wids) : x \div 32 = win}}
        /\ W[2 * num_win + 1].reg = "DCTRL" /\ bit \in W[2 * num_win + 1].v
        /\ Cardinality(RequestAt(log, bit)) = 1
        /\ \A j \in DOMAIN log : \A q \in RequestAt(log, bit) :
               /\ log[j].reg = "WMASK" => j < q
               /\ log[j].reg = "WSTATUS" => j > q

\* C12: halt_warps(wids) writes the selection mask of wids, then
\* DCTRL.haltreq = 1, then reads the state of the listed warps; it returns
\* RCODE_ERROR if a listed warp is not halted afterwards and RCODE_OK if every
\* listed warp is halted
C12_HaltWarps ==
    \A i \in DOMAIN hist :
        CtlCase(i, "halt_warps") =>
            /\ CtlOrder(i, 0)
            /\ hist[i].rc = IF Range(hist[i].args.wids) \subseteq PostOf(i).hw.halted
                            THEN RCODE_OK ELSE RCODE_ERROR

\* a halt of several warps, one of which does not halt
C12_Witness ==
    \E i \in DOMAIN hist :
        /\ CtlCase(i, "halt_warps") /\ hist[i].rc = RCODE_ERROR
        /\ Len(hist[i].args.wids) > 1

\* C13: resume_warps(wids) writes the selection mask of wids, then
\* DCTRL.resumereq = 1, then reads the state of the listed warps; a listed
\* warp that remains halted is worth a warning, not an error return
C13_ResumeWarps ==
    \A i \in DOMAIN hist :
        CtlCase(i, "resume_warps") =>
            /\ CtlOrder(i, 1)
            /\ hist[i].rc = RCODE_OK

\* what the code does: the order is as claimed, and the return code is
\* RCODE_ERROR if a listed warp remains halted
C13_ResumeWarpsError ==
    \A i \in DOMAIN hist :
        CtlCase(i, "resume_warps") =>
            /\ CtlOrder(i, 1)
            /\ hist[i].rc = IF Range(hist[i].args.wids) \cap PostOf(i).hw.halted = {}
                            THEN RCODE_OK ELSE RCODE_ERROR

---------------------------------------------------------------------------
(* Claims on the operations on the selected thread *)

PointerOps == {"step_warp", "get_warp_pc", "set_warp_pc", "get_halt_cause",
               "inject_instruction"}

PointerUnset(st) == st.selected_wid < 0 \/ st.selected_tid < 0

GprRoundTrip(i) ==
    /\ i + 1 \in DOMAIN hist
    /\ hist[i].op = "write_gpr" /\ hist[i].rc = RCODE_OK
    /\ hist[i + 1].op = "read_gpr" /\ hist[i + 1].rc = RCODE_OK
    /\ hist[i + 1].args.regnum = hist[i].args.regnum
    /\ hist[i].pre.st.selected_wid \in hist[i].pre.hw.halted
    /\ hist[i].pre.st.selected_wid \in PostOf(i + 1).hw.halted

\* C18 as stated: for every GPR xN, x0 included, write_gpr(N, v) followed by
\* read_gpr(N) returns v
C18_GprRoundTrip ==
    \A i \in DOMAIN hist :
        GprRoundTrip(i) => hist[i + 1].val = hist[i].args.value

\* C18: for every GPR xN other than x0 and every value v, with the selected
\* warp halted, write_gpr(N, v) followed by read_gpr(N) returns v; for x0 the
\* read returns 0
C18_GprRoundTripButX0 ==
    \A i \in DOMAIN hist :
        GprRoundTrip(i) =>
            hist[i + 1].val = IF hist[i].args.regnum = 0 THEN {} ELSE hist[i].args.value

\* a round trip through x31 with a value the register did not hold
C18_Witness ==
    /\ Len(hist) = 2 /\ GprRoundTrip(1)
    /\ hist[1].args.regnum = 31
    /\ hist[1].args.value = WordBits
    /\ hist[1].pre.hw.gpr[<<0, 0>>][31] # WordBits
    /\ hist[2].val = WordBits

---------------------------------------------------------------------------
(* Claims on the arguments of select_warp_thread *)

\* the arguments of call i lie outside the platform known at the call
SelArgsInvalid(i) ==
    \/ hist[i].args.g_wid < 0
    \/ hist[i].args.g_wid >= hist[i].pre.st.platinfo.num_total_warps
    \/ hist[i].args.tid < 0
    \/ hist[i].args.tid >= hist[i].pre.st.platinfo.num_threads

\* C15: select_warp_thread with a warp id outside [0, num_total_warps) or a
\* thread id outside [0, num_threads) returns RCODE_INVALID_ARG, issues no
\* request (so writes nothing to DSELECT) and leaves the cached selection
\* and the cached PC as they were
C15_SelectRejects ==
    \A i \in DOMAIN hist :
        hist[i].op = "select_warp_thread" /\ SelArgsInvalid(i) =>
            /\ hist[i].rc = RCODE_INVALID_ARG
            /\ hist[i].log = <<>>
            /\ PostOf(i).hw.dselect = hist[i].pre.hw.dselect
            /\ PostOf(i).st = hist[i].pre.st

\* a rejected selection of an existing warp with a thread id that is one too
\* large, on a back end that has a thread selected
C15_Witness ==
    \E i \in DOMAIN hist :
        /\ hist[i].op = "select_warp_thread"
        /\ hist[i].args.g_wid = 33
        /\ hist[i].args.tid = hist[i].pre.st.platinfo.num_threads
        /\ hist[i].pre.st.selected_wid = 0
        /\ hist[i].rc = RCODE_INVALID_ARG

---------------------------------------------------------------------------
(* Claims on error propagation *)

\* C16: in every engine operation the first step that returns a non-OK code
\* ends the operation and is its return code: a request answered by a NACK
\* (the transport returns RCODE_ERROR for it) is the last request of the
\* operation, and the operation returns RCODE_ERROR
C16_FirstFailureAborts ==
    \A i \in DOMAIN hist :
        \A j \in DOMAIN hist[i].log :
            ~hist[i].log[j].ok =>
                /\ j = Len(hist[i].log)
                /\ hist[i].rc = RCODE_ERROR

---------------------------------------------------------------------------
(* Claims on the transport check *)

DmAccessOps == {"dmreg_rd", "dmreg_wr", "dmreg_rdfield", "dmreg_wrfield",
                "dmreg_pollfield"}

\* C17: dmreg_rd, dmreg_wr, dmreg_rdfield, dmreg_wrfield and dmreg_pollfield
\* return RCODE_TRANSPORT_ERR and issue no request when the back end has no
\* transport or its transport is not connected
C17_TransportDown ==
    \A i \in DOMAIN hist :
        /\ hist[i].op \in DmAccessOps
        /\ ~transport_.present \/ ~transport_.connected
        => /\ hist[i].rc = RCODE_TRANSPORT_ERR
           /\ hist[i].log = <<>>
           /\ PostOf(i).hw = hist[i].pre.hw

\* a poll of an existing field refused on a disconnected transport
C17_Witness ==
    \E i \in DOMAIN hist :
        /\ hist[i].op = "dmreg_pollfield"
        /\ hist[i].args.field = "injectstate"
        /\ transport_ = TransportDisconnected
        /\ hist[i].rc = RCODE_TRANSPORT_ERR

---------------------------------------------------------------------------
(* Claims on read_mem of zero bytes *)

\* C19: read_mem(addr, 0, buf) returns RCODE_OK with buf empty, whatever buf
\* held before the call, and issues no request
C19_ZeroReadEmpties ==
    \A i \in DOMAIN hist :
        hist[i].op = "read_mem_buf" /\ hist[i].args.n = 0 =>
            /\ hist[i].rc = RCODE_OK
            /\ hist[i].data = <<>>
            /\ hist[i].log = <<>>

\* what the code does: it returns RCODE_OK, issues no request and leaves buf
\* as it was
C19_ZeroReadKeepsBuffer ==
    \A i \in DOMAIN hist :
        hist[i].op = "read_mem_buf" /\ hist[i].args.n = 0 =>
            /\ hist[i].rc = RCODE_OK
            /\ hist[i].data = hist[i].args.buf
            /\ hist[i].log = <<>>

---------------------------------------------------------------------------
(* Claims on the error replies of the RSP stub *)

StubCmds == {"cmd_read_reg", "cmd_write_reg", "cmd_read_mem", "cmd_step",
             "cmd_thread_select"}

ErrorPackets == {Packet("E01", <<>>), Packet("E02", <<>>), Packet("E03", <<>>)}

\* an engine operation called by the handler of command i returned non-OK
EngineFailed(i) == \E k \in DOMAIN hist[i].rcs : hist[i].rcs[k] # RCODE_OK

\* C20: whenever an engine operation called by a command handler returns a
\* non-OK code, the reply to that command is E01, E02 or E03 (and the stub
\* takes the next command)
C20_ErrorReply ==
    \A i \in DOMAIN hist :
        hist[i].op \in StubCmds /\ EngineFailed(i) => hist[i].reply \in ErrorPackets

\* what the code does: the handlers of P, m and Hc/Hg, and cmd_step for its
\* step_warp call, answer a non-OK code with an error packet
C20_ErrorReplyWhereChecked ==
    \A i \in DOMAIN hist :
        /\ hist[i].op \in StubCmds \ {"cmd_read_reg"}
        /\ hist[i].rcs # <<>>
        /\ hist[i].rcs[Len(hist[i].rcs)] # RCODE_OK
        => hist[i].reply \in ErrorPackets

\* a register read that failed in the engine and was answered with digits,
\* followed by another command
C20_IgnoredFailure ==
    /\ Len(hist) = MaxStubCmds
    /\ hist[1].op = "cmd_read_reg" /\ EngineFailed(1)
    /\ hist[1].reply \notin ErrorPackets


---------------------------------------------------------------------------
(* The command loop of the stub *)

TransportError(e) == e.e \in {"rxerr", "closed"} \/ (e.e = "tx" /\ ~e.ok)

\* C21: once a transport error has occurred while a client is served (recv
\* failed or saw the disconnect, or a send failed), no further packet of that
\* client is processed, and the server is back at accepting a connection when
\* the command loop has ended
C21_TransportErrorEndsSession ==
    /\ \A i, j \in DOMAIN stub.ev :
          i < j /\ TransportError(stub.ev[i]) => stub.ev[j].e # "cmd"
    /\ stub.ev # <<>> /\ stub.ev[Len(stub.ev)].e = "leave" => stub.pos = "accept"

\* what the code does: an exception of recv_data ends the command loop, and
\* nothing is processed after the client's disconnect
C21_RecvErrorEndsSession ==
    /\ \A i, j \in DOMAIN stub.ev :
          i < j /\ stub.ev[i].e \in {"rxerr", "closed"} => stub.ev[j].e # "cmd"
    /\ \A i \in DOMAIN stub.ev :
          stub.ev[i].e = "rxerr" => i < Len(stub.ev) /\ stub.ev[i + 1].e = "leave"
    /\ stub.ev # <<>> /\ stub.ev[Len(stub.ev)].e = "leave" => stub.pos = "accept"

\* a command dispatched after the send of an earlier reply had failed
C21_ServedAfterSendFailure ==
    \E i, j \in DOMAIN stub.ev :
        /\ i < j
        /\ stub.ev[i].e = "tx" /\ ~stub.ev[i].ok
        /\ stub.ev[j].e = "cmd"

IsAck(e) == e.e = "tx" /\ e.data = <<43>>

\* C22: each command received with a valid checksum, registered or not, is
\* followed at once by one '+', and no second '+' is sent before the next
\* iteration of the command loop: the acknowledgement precedes the reply
C22_AckBeforeReply ==
    \A i \in DOMAIN stub.ev :
        stub.ev[i].e = "cmd" =>
            /\ i < Len(stub.ev)
            /\ IsAck(stub.ev[i + 1])
            /\ \A j \in (i + 2)..Len(stub.ev) :
                  IsAck(stub.ev[j]) => \E k \in (i + 1)..(j - 1) : stub.ev[k].e = "iter"

\* a registered and an unregistered command were each acknowledged and then
\* answered
C22_Witness ==
    /\ Len(stub.ev) >= 8
    /\ stub.ev[3] = Ev("cmd", <<63>>, TRUE)
    /\ IsAck(stub.ev[4])
    /\ stub.ev[5] = Ev("tx", packetify(<<83, 48, 53>>, TRUE), TRUE)
    /\ stub.ev[7] = Ev("cmd", <<107>>, TRUE)
    /\ IsAck(stub.ev[8])
    /\ stub.ev[9] = Ev("tx", packetify(<<>>, TRUE), TRUE)


---------------------------------------------------------------------------
(* The thread list *)

\* the payload of the k-th event, a packet sent
Payload(k) == SubSeq(stub.ev[k].data, 2, Len(stub.ev[k].data) - 3)

\* the positions that delimit the items of an 'm' reply: its 'm', its commas
\* and its end
Seps(r) == {1, Len(r) + 1} \cup {i \in DOMAIN r : r[i] = 44}

\* the thread id that starts after the separator at a
IdAt(r, a) ==
    strtol_digits(SubSeq(r, a + 1, (CHOOSE b \in Seps(r) : b > a /\ \A c \in Seps(r) : c > a => b <= c) - 1), 0)

\* (event, separator) of every thread id listed by the 'm' replies
Listed ==
    {p \in (2..Len(stub.ev)) \X (1..260) :
        /\ Payload(p[1])[1] = 109
        /\ p[2] \in Seps(Payload(p[1])) \ {Len(Payload(p[1])) + 1}}

EnumComplete == Len(stub.ev) > 1 /\ Payload(Len(stub.ev)) = <<108>>

\* C23: when qfThreadInfo and the qsThreadInfo requests after it have been
\* answered up to 'l', every global thread id of the thread map has been listed
\* exactly once and nothing else has, no 'm' reply lists more than 64 ids, and
\* the 'l' has come after as many 'm' replies as 64-id batches are needed
C23_ThreadsListedOnce ==
    /\ \A k \in 2..Len(stub.ev) :
          /\ stub.ev[k].e = "tx"
          /\ Payload(k)[1] \in {108, 109}
          /\ Payload(k)[1] = 109 =>
                /\ Cardinality(Seps(Payload(k))) - 1 <= 64
                /\ Len(Payload(k)) > 1
          /\ Payload(k)[1] = 108 => k = Len(stub.ev) /\ Payload(k) = <<108>>
    /\ EnumComplete =>
          /\ \A g \in DOMAIN stub.thread_map_ :
                Cardinality({p \in Listed : IdAt(Payload(p[1]), p[2]) = g}) = 1
          /\ \A p \in Listed : IdAt(Payload(p[1]), p[2]) \in DOMAIN stub.thread_map_
          /\ Len(stub.ev) - 2 = (Cardinality(DOMAIN stub.thread_map_) + 63) \div 64

\* the 136 threads of a platform have been listed in three replies and 'l',
\* starting from a cursor that a former enumeration had left at 1
C23_Witness ==
    /\ EnumComplete
    /\ Cardinality(DOMAIN stub.thread_map_) = 136
    /\ Len(stub.ev) = 5
    /\ stub.thread_enum_cursor_ = 136
    /\ stub.thread_order[1] = 136


---------------------------------------------------------------------------
(* The thread map *)

MapWarps == 0..(state_.platinfo.num_total_warps - 1)
MapThreads == 0..(state_.platinfo.num_threads - 1)

\* C24: the thread map of a constructed stub maps global thread id
\* 1 + w * num_threads + l to (w, l): its keys are exactly
\* 1..num_total_warps * num_threads (0 is not a key), every valid (warp, thread)
\* pair is the value of its own id, and no two ids have the same value
C24_ThreadMapBijection ==
    stub.pos # "none" =>
        /\ DOMAIN stub.thread_map_ =
               1..(state_.platinfo.num_total_warps * state_.platinfo.num_threads)
        /\ 0 \notin DOMAIN stub.thread_map_
        /\ \A w \in MapWarps, l \in MapThreads :
              stub.thread_map_[1 + w * state_.platinfo.num_threads + l] = <<w, l>>
        /\ \A g \in DOMAIN stub.thread_map_ : stub.thread_map_[g] \in MapWarps \X MapThreads
        /\ \A g, h \in DOMAIN stub.thread_map_ :
              g # h => stub.thread_map_[g] # stub.thread_map_[h]

\* the stub of a platform of 12 warps of 8 threads has been constructed
C24_Witness ==
    /\ stub.pos = "accept"
    /\ state_.platinfo.num_total_warps = 12 /\ state_.platinfo.num_threads = 8
    /\ stub.thread_map_[96] = <<11, 7>>
    /\ Cardinality(DOMAIN stub.thread_map_) = 96


---------------------------------------------------------------------------
(* Framing *)

\* the payload that was framed, and whether the packet has been read back
Framed == stub.ev[2].data
ReadBack == Len(stub.ev) >= 3 /\ stub.ev[2].e = "peer" /\ stub.ev[3].e = "iter"

\* C25: the packet that packetify makes of a payload is accepted by
\* recv_packet, and without its '$' and '#xx' it is the payload
C25_RoundTrip ==
    ReadBack =>
        /\ stub.rc = RCODE_OK
        /\ stub.pkt # <<>>
        /\ SubSeq(stub.pkt, 2, Len(stub.pkt) - 3) = Framed

PlainPayload(p) == \A i \in DOMAIN p : p[i] \notin {0, 35}

\* what the code does when the payload holds neither '#' nor NUL, the two
\* checksum characters arrive together and the byte that follows checksum_buf
\* in memory is not a hex digit
C25_RoundTripPlain ==
    ReadBack /\ PlainPayload(Framed) /\ ~stub.short /\ ~IsHex(stub.garbage) =>
        /\ stub.rc = RCODE_OK
        /\ SubSeq(stub.pkt, 2, Len(stub.pkt) - 3) = Framed

\* a payload with a '#' in it was framed and the packet was not accepted
C25_HashInPayload ==
    /\ ReadBack
    /\ Framed = <<97, 35, 49>>
    /\ ~stub.short /\ stub.garbage = 0
    /\ stub.rc = RCODE_ERROR

\* a plain payload was framed and the packet was not accepted, strtol having
\* read a third hex digit behind checksum_buf
C25_ChecksumOverread ==
    /\ ReadBack
    /\ Framed = <<97>>
    /\ ~stub.short /\ stub.garbage = 51
    /\ stub.rc = RCODE_ERROR

\* the sum of the byte values
RECURSIVE ByteSum(_)
ByteSum(p) == IF p = <<>> THEN 0 ELSE Head(p) + ByteSum(Tail(p))

\* the bytes recv_packet collects: those before the first '#' of the packet
Collected == SubSeq(stub.ev[2].data, 1, find(c_str(stub.ev[2].data) \o <<35>>, 35))

\* C26: the two hex digits that checksum_str makes of a payload are the low 8
\* bits of the sum of its bytes (with char signed or unsigned), and so is the
\* calculated_checksum of recv_packet for the bytes it has collected
C26_ChecksumLowByte ==
    /\ Len(stub.ev) >= 2 /\ stub.ev[2].e = "peer" =>
          16 * HexVal(checksum_str(Framed, stub.char_signed)[1])
              + HexVal(checksum_str(Framed, stub.char_signed)[2]) = ByteSum(Framed) % 256
    /\ ReadBack /\ stub.calc >= 0 => stub.calc = ByteSum(Collected) % 256

\* the checksums of a payload of three bytes above 0x7f, whose sum does not
\* fit 8 bits, have been made by a build with signed char and compared
C26_Witness ==
    /\ ReadBack
    /\ Framed = <<200, 255, 200>>
    /\ stub.char_signed
    /\ stub.calc = 143
    /\ stub.rc = RCODE_OK


\* the packet of operation i passed the validation of cmd_write_mem
WmemAccepted(i) == hist[i].reply \notin {Packet("E01", <<>>), Packet("E02", <<>>)}

\* the number that the hex digits of a well-formed field spell
HexNum(str) == Val(strtoul16(str))

\* byte k of a string of an even number of hex digits
HexByte(str, k) == 16 * HexVal(str[2 * k - 1]) + HexVal(str[2 * k])

AllHex(str) == \A k \in DOMAIN str : IsHex(str[k])

\* C27: an M<addr>,<len>:<hex> packet is accepted only if len is the number of
\* hex digits divided by two; a packet that fails the validation is answered
\* with an error packet and nothing is written; an accepted packet whose write
\* succeeds leaves exactly the len decoded bytes at addr.
C27_WriteMemValidated ==
    \A i \in DOMAIN hist :
        hist[i].op = "cmd_write_mem" =>
            LET a == hist[i].args
            IN  /\ WmemAccepted(i) =>
                    /\ a.wf
                    /\ 2 * HexNum(a.len) = Len(a.hex)
                /\ ~WmemAccepted(i) =>
                    /\ hist[i].reply \in ErrorPackets
                    /\ hist[i].log = <<>>
                    /\ PostOf(i).hw.mem = hist[i].pre.hw.mem
                /\ (hist[i].reply = Packet("OK", <<>>) /\ AllHex(a.hex)
                    /\ 2 * HexNum(a.len) = Len(a.hex)) =>
                    \A j \in MemOffsets :
                        LET k == j - MemOffset(strtoul16(a.addr)) + 1
                        IN  MemByte(PostOf(i).hw.mem, MemAddr(j)) =
                                IF k \in 1..HexNum(a.len) THEN HexByte(a.hex, k)
                                ELSE MemByte(hist[i].pre.hw.mem, MemAddr(j))

\* a rejected packet is answered with an error packet and writes nothing
C27_RejectedWritesNothing ==
    \A i \in DOMAIN hist :
        (hist[i].op = "cmd_write_mem" /\ ~WmemAccepted(i)) =>
            /\ hist[i].reply \in ErrorPackets
            /\ hist[i].log = <<>>
            /\ PostOf(i).hw.mem = hist[i].pre.hw.mem

\* an accepted packet of len pairs of hex digits, its write done, leaves the
\* len decoded bytes at addr and every other byte as it was
C27_AcceptedWritesDecoded ==
    \A i \in DOMAIN hist :
        (/\ hist[i].op = "cmd_write_mem"
         /\ hist[i].reply = Packet("OK", <<>>)
         /\ AllHex(hist[i].args.hex)
         /\ 2 * HexNum(hist[i].args.len) = Len(hist[i].args.hex)) =>
            \A j \in MemOffsets :
                LET k == j - MemOffset(strtoul16(hist[i].args.addr)) + 1
                IN  MemByte(PostOf(i).hw.mem, MemAddr(j)) =
                        IF k \in 1..HexNum(hist[i].args.len)
                        THEN HexByte(hist[i].args.hex, k)
                        ELSE MemByte(hist[i].pre.hw.mem, MemAddr(j))


\* a packet with an odd number of hex digits is accepted and written
C27_OddDigitsWritten ==
    \E i \in DOMAIN hist :
        /\ hist[i].op = "cmd_write_mem"
        /\ hist[i].reply = Packet("OK", <<>>)
        /\ hist[i].args.hex = <<97, 49, 98>>
        /\ HexNum(hist[i].args.len) = 2
        /\ MemByte(PostOf(i).hw.mem, MemAddr(1)) = 161
        /\ MemByte(PostOf(i).hw.mem, MemAddr(2)) = 11


\* the hex number str without its leading zeros
Significant(str) ==
    IF \A k \in DOMAIN str : str[k] = 48 THEN <<>>
    ELSE SubSeq(str, CHOOSE k \in DOMAIN str : str[k] # 48 /\ \A j \in 1..(k - 1) : str[j] = 48,
                Len(str))

\* the number that the hex digits str spell, or 2^30 if that is less
XferNum(str) ==
    IF Len(Significant(str)) > 7 THEN 2^30 ELSE strtol_digits(Significant(str), 0)

\* <off> and <len> of the request, and the payload of the reply to it
XferOff == SubSeq(stub.ev[2].data, 1, find(stub.ev[2].data, 44))
XferLen == SubSeq(stub.ev[2].data, find(stub.ev[2].data, 44) + 2, Len(stub.ev[2].data))
XferReply == Payload(3)

\* the bytes of the document from off, at most len of them
XferChunk(off, len) ==
    IF off >= Len(target_xml) THEN <<>>
    ELSE SubSeq(target_xml, off + 1,
                IF len >= Len(target_xml) - off THEN Len(target_xml) ELSE off + len)

XferExpected(off, len) ==
    (IF off < Len(target_xml) /\ off + Len(XferChunk(off, len)) < Len(target_xml)
     THEN <<109>> ELSE <<108>>) \o XferChunk(off, len)

XferAnswered == Len(stub.ev) = 3 /\ stub.ev[2].e = "peer" /\ stub.ev[3].e = "tx"

\* C28: for every offset and length, the reply to
\* qXfer:features:read:target.xml:<off>,<len> is the bytes of the document from
\* off, at most len of them, after 'm' if more of the document follows the
\* chunk and after 'l' if not (also when off is at or beyond the end)
C28_XferChunk ==
    XferAnswered => XferReply = XferExpected(XferNum(XferOff), XferNum(XferLen))

\* the same for offsets and lengths of at most 32 bits
C28_XferChunk32 ==
    (XferAnswered /\ Len(Significant(XferOff)) <= 8 /\ Len(Significant(XferLen)) <= 8) =>
        XferReply = XferExpected(XferNum(XferOff), XferNum(XferLen))

\* the offset 0x100000000 is answered with the start of the document
C28_OffsetTruncated ==
    /\ XferAnswered
    /\ XferOff = <<49, 48, 48, 48, 48, 48, 48, 48, 48>> /\ XferLen = <<52, 48>>
    /\ XferReply = <<109>> \o SubSeq(target_xml, 1, 64)


\* the bit positions msb..lsb of the field of the input
FieldBits == DM_REGS[hist[1].reg][hist[1].fieldname].lsb ..
             DM_REGS[hist[1].reg][hist[1].fieldname].msb

\* C29: for every DM register, field f, word and value v, extract(f, set(f,
\* word, v)) is v cut to the width of f, and set(f, word, v) has the bits of
\* word outside f, also for the fields that are 32 bits wide
C29_FieldSetExtract ==
    /\ Len(hist) >= 2 =>
          \A b \in WordBits \ FieldBits : b \in hist[2].val <=> b \in hist[1].reg_value
    /\ Len(hist) = 3 =>
          hist[3].val = {b \in hist[1].field_value : b < Cardinality(FieldBits)}

\* the alternating value 0xaaaaaaaa has been set in, and read back from, the
\* 32-bit field DPC.pc over the word 0x55555555, and in the 15-bit field
\* DSELECT.warpsel it has been cut to 0x2aaa
C29_Witness ==
    /\ Len(hist) = 3
    /\ hist[1].field_value = {b \in WordBits : b % 2 = 1}
    /\ hist[1].reg_value = {b \in WordBits : b % 2 = 0}
    /\ \/ /\ hist[1].reg = "DPC" /\ hist[1].fieldname = "pc"
          /\ hist[3].val = hist[1].field_value
       \/ /\ hist[1].reg = "DSELECT" /\ hist[1].fieldname = "warpsel"
          /\ hist[3].val = {1, 3, 5, 7, 9, 11, 13}
          /\ hist[2].val = {b \in WordBits : b % 2 = 0 /\ (b < 7 \/ b > 21)}
                           \cup {8, 10, 12, 14, 16, 18, 20}


\* DSELECT.warpsel and DSELECT.threadsel of the DM before operation i are the
\* cached pointer
PointerInDM(i) ==
    /\ FieldOf(hist[i].pre.hw.dselect, 21, 7) = Bits(hist[i].pre.st.selected_wid)
    /\ FieldOf(hist[i].pre.hw.dselect, 6, 0) = Bits(hist[i].pre.st.selected_tid)

\* operation i writes the cached pointer to DSELECT before any other request
PointerRewritten(i) ==
    \E j \in DOMAIN hist[i].log :
        /\ hist[i].log[j].k = "w" /\ hist[i].log[j].reg = "DSELECT" /\ hist[i].log[j].ok
        /\ FieldOf(hist[i].log[j].v, 21, 7) = Bits(hist[i].pre.st.selected_wid)
        /\ FieldOf(hist[i].log[j].v, 6, 0) = Bits(hist[i].pre.st.selected_tid)
        /\ \A l \in 1..(j - 1) : hist[i].log[l].reg = "DSELECT"

\* C30: whenever an operation on the current thread (step, injection, PC, GPR,
\* CSR or memory access) starts while the cached selection is set, DSELECT
\* points at the cached (warp, thread), or the operation first writes it
\* there, also after a select_warp_thread or get_warp_status that returned an
\* error part-way
C30_PointerWritten ==
    \A i \in DOMAIN hist :
        (hist[i].op \in PtrUseOps /\ hist[i].pre.st.selected_wid >= 0) =>
            PointerInDM(i) \/ PointerRewritten(i)

\* the same after operations that all returned RCODE_OK
C30_PointerWrittenAfterOk ==
    \A i \in DOMAIN hist :
        (/\ hist[i].op \in PtrUseOps /\ hist[i].pre.st.selected_wid >= 0
         /\ \A j \in 1..(i - 1) : hist[j].rc = RCODE_OK) =>
            PointerInDM(i)

\* select_warp_thread(1, 1) failed at the write of threadsel, and the PC then
\* read as that of the cached warp 0 is the PC of warp 1
C30_StalePointer ==
    /\ Len(hist) = 2
    /\ hist[1].op = "select_warp_thread" /\ hist[1].rc # RCODE_OK
    /\ hist[1].args.g_wid = 1
    /\ hist[2].op = "get_warp_pc" /\ hist[2].rc = RCODE_OK
    /\ hist[2].pre.st.selected_wid = 0
    /\ FieldOf(hist[2].pre.hw.dselect, 21, 7) = Bits(1)
    /\ hist[2].val = PcOf(1)


\* t0 and t1 of the thread operation i started on are as they were at entry
ScratchRestored(i) ==
    /\ PostOf(i).hw.gpr[ThreadOf(hist[i])][T0] = hist[i].pre.hw.gpr[ThreadOf(hist[i])][T0]
    /\ PostOf(i).hw.gpr[ThreadOf(hist[i])][T1] = hist[i].pre.hw.gpr[ThreadOf(hist[i])][T1]

\* C31: read_mem and write_mem leave t0 and t1 of the selected thread as they
\* were at entry on every exit path, the early returns after a failed DM
\* access or injection included
C31_MemRestoresScratch ==
    \A i \in DOMAIN hist :
        (hist[i].op \in {"read_mem", "write_mem"} /\ OnHaltedThread(hist[i])) =>
            ScratchRestored(i)

\* on the success path t0 and t1 are restored
C31_MemRestoresScratchWhenOk ==
    \A i \in DOMAIN hist :
        (hist[i].op \in {"read_mem", "write_mem"} /\ OnHaltedThread(hist[i])
         /\ hist[i].rc = RCODE_OK) =>
            ScratchRestored(i)

\* a read_mem has returned an error with t0 left at the address it read from
C31_ScratchLeftClobbered ==
    \E i \in DOMAIN hist :
        /\ hist[i].op = "read_mem" /\ hist[i].rc # RCODE_OK
        /\ hist[i].args.addr = MemAddr(0)
        /\ PostOf(i).hw.gpr[ThreadOf(hist[i])][T0] = MemAddr(0)


\* operation i has replaced the word at its addr with ebreak
EbreakStored(i) ==
    /\ BytesAt(PostOf(i).hw.mem, hist[i].args.addr) = WordBytes(asm_ebreak)
    /\ BytesAt(hist[i].pre.hw.mem, hist[i].args.addr) # WordBytes(asm_ebreak)

\* C32: whenever set_breakpoint has replaced the word at addr with ebreak, the
\* breakpoint table holds an enabled entry for addr whose original instruction
\* is the replaced word; when set_breakpoint returns a code other than OK the
\* memory at addr is unchanged
C32_EbreakIsRecorded ==
    \A i \in DOMAIN hist :
        hist[i].op = "set_breakpoint" =>
            /\ EbreakStored(i) =>
                  /\ hist[i].args.addr \in DOMAIN PostOf(i).bps
                  /\ PostOf(i).bps[hist[i].args.addr].enabled
                  /\ WordBytes(PostOf(i).bps[hist[i].args.addr].replaced_instr)
                         = BytesAt(hist[i].pre.hw.mem, hist[i].args.addr)
            /\ hist[i].rc # RCODE_OK =>
                  BytesAt(PostOf(i).hw.mem, hist[i].args.addr)
                      = BytesAt(hist[i].pre.hw.mem, hist[i].args.addr)

\* a set_breakpoint that returns OK has recorded the word it replaced
C32_EbreakIsRecordedWhenOk ==
    \A i \in DOMAIN hist :
        (hist[i].op = "set_breakpoint" /\ hist[i].rc = RCODE_OK) =>
            /\ EbreakStored(i)
            /\ hist[i].args.addr \in DOMAIN PostOf(i).bps
            /\ PostOf(i).bps[hist[i].args.addr].enabled
            /\ WordBytes(PostOf(i).bps[hist[i].args.addr].replaced_instr)
                   = BytesAt(hist[i].pre.hw.mem, hist[i].args.addr)

\* set_breakpoint has returned an error with ebreak in memory and no entry in
\* the table
C32_OriginalLost ==
    \E i \in DOMAIN hist :
        /\ hist[i].op = "set_breakpoint" /\ hist[i].rc # RCODE_OK
        /\ EbreakStored(i)
        /\ PostOf(i).bps = <<>>


\* C33: every response line consumed by read_reg or write_reg is the server's
\* answer to that same request; after a request has timed out, its late
\* response is never taken as the answer to a later request
C33_AnswerOfSameRequest ==
    \A i \in DOMAIN hist :
        (hist[i].op \in {"read_reg", "write_reg"} /\ hist[i].line > 0) =>
            hist[i].line = hist[i].cmd

\* while no request has timed out, every verb consumes its own answer
C33_AnswerOfSameRequestNoTimeout ==
    \A i \in DOMAIN hist :
        (/\ hist[i].op \in {"read_reg", "write_reg"} /\ hist[i].line > 0
         /\ \A j \in 1..(i - 1) : hist[j].rc # RCODE_TIMEOUT) =>
            hist[i].line = hist[i].cmd

\* a read has timed out, and the next read has returned OK with the value
\* that answers the first
C33_LateAnswerTaken ==
    /\ Len(hist) = 2
    /\ hist[1].op = "read_reg" /\ hist[1].rc = RCODE_TIMEOUT
    /\ hist[2].op = "read_reg" /\ hist[2].rc = RCODE_OK
    /\ hist[2].cmd = 2 /\ hist[2].line = 1
    /\ hist[2].data = WireValue(1)


\* the verb of record i consumed a line that is a NACK or malformed
BadAnswer(i) ==
    /\ hist[i].line > 0
    /\ \/ hist[i].out = <<>>
       \/ hist[i].out[1] # 43
       \/ hist[i].op = "read_reg" /\ Len(hist[i].out) # 9

\* C38: when the server answers a register read or write with a NACK or with
\* a malformed response, the transport verb returns RCODE_TRANSPORT_ERR (-7)
C38_NackIsTransportError ==
    \A i \in DOMAIN hist :
        (hist[i].op \in {"read_reg", "write_reg"} /\ BadAnswer(i)) =>
            hist[i].rc = RCODE_TRANSPORT_ERR

\* a NACK or a malformed response makes the verb return RCODE_ERROR (-1)
C38_NackIsError ==
    \A i \in DOMAIN hist :
        (hist[i].op \in {"read_reg", "write_reg"} /\ BadAnswer(i)) =>
            hist[i].rc = RCODE_ERROR

\* a read answered in time with '-' has returned RCODE_ERROR
C38_NackReported ==
    /\ Len(hist) = 1
    /\ hist[1].op = "read_reg" /\ hist[1].line = 1
    /\ hist[1].out = <<45>>
    /\ hist[1].rc = RCODE_ERROR


\* the positions in a log of the writes of DCTRL with the request bit b set
ReqWrites(log, b) ==
    {j \in DOMAIN log : log[j].k = "w" /\ log[j].reg = "DCTRL" /\ b \in log[j].v}

\* entry j of a log is an answered read of DCTRL with the bits lsb..msb zero
IdleRead(log, j, msb, lsb) ==
    /\ log[j].k = "r" /\ log[j].reg = "DCTRL" /\ log[j].ok
    /\ FieldOf(log[j].v, msb, lsb) = {}

\* C34: inject_instruction(word) writes word to DINJECT before it sets
\* DCTRL.injectreq, sets injectreq once at most (once when it returns OK),
\* returns OK only after a later read of DCTRL.injectstate returned 0, and
\* returns Timeout when none of the polls of the poll bound returned 0
C34_InjectSequence ==
    \A i \in DOMAIN hist :
        hist[i].op = "inject_instruction" =>
            LET L == hist[i].log
                R == ReqWrites(L, 6)
            IN  /\ Cardinality(R) <= 1
                /\ \A j \in R :
                      \E l \in 1..(j - 1) :
                          /\ L[l].k = "w" /\ L[l].reg = "DINJECT" /\ L[l].ok
                          /\ L[l].v = hist[i].args.instruction
                /\ hist[i].rc = RCODE_OK =>
                      \E j \in R : /\ L[j].ok
                                   /\ Len(L) > j
                                   /\ IdleRead(L, Len(L), 8, 7)
                /\ \A j \in R :
                      L[j].ok =>
                          /\ Len(L) - j <= poll_retries_
                          /\ (/\ Len(L) - j = poll_retries_
                              /\ \A l \in (j + 1)..Len(L) :
                                    L[l].ok /\ ~IdleRead(L, l, 8, 7))
                             <=> hist[i].rc = RCODE_TIMEOUT

\* an injection has returned OK at its second poll, the first having read a
\* busy injectstate
C34_Witness ==
    /\ Len(hist) = 1 /\ hist[1].op = "inject_instruction"
    /\ Cardinality(ReqWrites(hist[1].log, 6)) = 1
    /\ hist[1].rc = RCODE_OK
    /\ hist[1].log[Len(hist[1].log) - 1].k = "r"
    /\ ~IdleRead(hist[1].log, Len(hist[1].log) - 1, 8, 7)

\* an injection has timed out after MaxPollRetries polls
C34_TimedOut ==
    /\ Len(hist) = 1 /\ hist[1].op = "inject_instruction"
    /\ hist[1].rc = RCODE_TIMEOUT
    /\ poll_retries_ = MaxPollRetries
    /\ Cardinality(ReqWrites(hist[1].log, 6)) = 1


\* the positions in a log of the reads of DPC
PcReads(log) == {j \in DOMAIN log : log[j].k = "r" /\ log[j].reg = "DPC"}

\* C35: step_warp on a selected thread writes DCTRL.stepreq = 1, then polls
\* until DCTRL.stepstate is 0, and only then reads DPC; when it returns OK the
\* cached PC of the selected warp is that DPC value; when the poll times out
\* DPC is not read and the cached PC is unchanged
C35_StepSequence ==
    \A i \in DOMAIN hist :
        (hist[i].op = "step_warp" /\ hist[i].pre.st.selected_wid >= 0) =>
            LET L == hist[i].log
                R == ReqWrites(L, 3)
            IN  /\ Cardinality(R) <= 1
                /\ \A d \in PcReads(L) :
                      \E s \in R : /\ L[s].ok
                                   /\ s < d - 1
                                   /\ IdleRead(L, d - 1, 5, 4)
                                   /\ \A l \in (s + 1)..(d - 2) :
                                         L[l].k = "r" /\ L[l].reg = "DCTRL"
                /\ hist[i].rc = RCODE_OK =>
                      /\ Len(L) \in PcReads(L) /\ L[Len(L)].ok
                      /\ PostOf(i).st.selected_warp_pc = L[Len(L)].v
                /\ hist[i].rc = RCODE_TIMEOUT =>
                      /\ PcReads(L) = {}
                      /\ Cardinality(R) = 1
                      /\ PostOf(i).st.selected_warp_pc = hist[i].pre.st.selected_warp_pc

\* a step of the halted warp 0 has returned OK at its second poll with the PC
\* advanced in the cache
C35_Witness ==
    /\ Len(hist) = 1 /\ hist[1].op = "step_warp" /\ hist[1].rc = RCODE_OK
    /\ hist[1].pre.st.selected_wid = 0
    /\ ~IdleRead(hist[1].log, Len(hist[1].log) - 2, 5, 4)
    /\ state_.selected_warp_pc = Add32(PcOf(0), Bits(4))
    /\ state_.selected_warp_pc # hist[1].pre.st.selected_warp_pc

\* a step has timed out with the request sent and DPC not read
C35_TimedOut ==
    /\ Len(hist) = 1 /\ hist[1].op = "step_warp" /\ hist[1].rc = RCODE_TIMEOUT
    /\ Cardinality(ReqWrites(hist[1].log, 3)) = 1
    /\ PcReads(hist[1].log) = {}


\* the pointer of a state_ record is unset
Unset(st) == st.selected_wid < 0 \/ st.selected_tid < 0

\* C36: get_selected_warp_thread called while no pointer is set, with or
\* without force_fetch, leaves the pointer unset, and an operation that needs
\* the pointer and follows it returns RCODE_NONESELECTED_ERR
C36_QueryKeepsUnset ==
    \A i \in DOMAIN hist :
        (hist[i].op = "get_selected_warp_thread" /\ Unset(hist[i].pre.st)) =>
            /\ Unset(PostOf(i).st)
            /\ (i < Len(hist) /\ hist[i + 1].op \in PtrUseOps) =>
                  hist[i + 1].rc = RCODE_NONESELECTED_ERR

\* the same for the query of the cache alone (force_fetch = false)
C36_CachedQueryKeepsUnset ==
    \A i \in DOMAIN hist :
        (/\ hist[i].op = "get_selected_warp_thread" /\ Unset(hist[i].pre.st)
         /\ ~hist[i].args.force_fetch) =>
            /\ Unset(PostOf(i).st)
            /\ (i < Len(hist) /\ hist[i + 1].op \in PtrUseOps) =>
                  hist[i + 1].rc = RCODE_NONESELECTED_ERR

\* after a query with force_fetch on an unset pointer, get_warp_pc has
\* returned OK
C36_PointerSetByQuery ==
    /\ Len(hist) = 2
    /\ hist[1].op = "get_selected_warp_thread" /\ hist[1].args.force_fetch
    /\ Unset(hist[1].pre.st)
    /\ hist[2].pre.st.selected_wid = 0 /\ hist[2].pre.st.selected_tid = 0
    /\ hist[2].op = "get_warp_pc" /\ hist[2].rc = RCODE_OK


\* C37: after fetch_platform_info returns OK, warp 0 is running if and only
\* if it was running before the call; DCTRL.haltreq is written only if warp 0
\* was not halted at the call, and DCTRL.resumereq is written exactly when
\* warp 0 was running at the call.
C37_PlatformKeepsWarp0 ==
    \A i \in DOMAIN hist :
        (hist[i].op = "fetch_platform_info" /\ hist[i].rc = RCODE_OK)
            => /\ (0 \in PostOf(i).hw.halted) = (0 \in hist[i].pre.hw.halted)
               /\ (ReqWrites(hist[i].log, 0) # {}) = (0 \notin hist[i].pre.hw.halted)
               /\ (ReqWrites(hist[i].log, 1) # {}) = (0 \notin hist[i].pre.hw.halted)
               /\ \A j \in ReqWrites(hist[i].log, 0), k \in ReqWrites(hist[i].log, 1) : j < k

\* warp 0 was running, was halted for the read of MISA and runs again
C37_Witness ==
    /\ Len(hist) = 1 /\ hist[1].op = "fetch_platform_info" /\ hist[1].rc = RCODE_OK
    /\ 0 \notin hist[1].pre.hw.halted /\ 0 \notin hw.halted
    /\ ReqWrites(hist[1].log, 0) # {} /\ ReqWrites(hist[1].log, 1) # {}
    /\ state_.platinfo.misa = hw.csr[RV_CSR_MISA]

\* warp 0 was halted and is left halted, with no halt or resume request
C37_HaltedStays ==
    /\ Len(hist) = 1 /\ hist[1].op = "fetch_platform_info" /\ hist[1].rc = RCODE_OK
    /\ 0 \in hist[1].pre.hw.halted /\ 0 \in hw.halted
    /\ ReqWrites(hist[1].log, 0) = {} /\ ReqWrites(hist[1].log, 1) = {}


\* the selections of the last warp alone
LastAlone(i) ==
    /\ hist[i].op = "select_warps"
    /\ hist[i].args.wids = <<hist[i].pre.st.platinfo.num_total_warps - 1>>

\* the window indices written to DSELECT.winsel
WinselWritten(log) ==
    {Val(FieldOf(log[j].v, 31, 22)) : j \in {k \in DOMAIN log : log[k].k = "w" /\ log[k].reg = "DSELECT"}}

\* C39 (as stated): selecting only warp num_total_warps - 1 sets bit
\* (num_total_warps - 1) mod 32 of the highest window and leaves the mask of
\* every other window as it was; no window index >= ceil(num_total_warps/32)
\* is written.
C39_OtherWindowsUntouched ==
    \A i \in DOMAIN hist :
        LastAlone(i) =>
            LET n == hist[i].pre.st.platinfo.num_total_warps
                num_win == (n + 31) \div 32
            IN  /\ \A win \in WinselWritten(hist[i].log) : win < num_win
                /\ hist[i].rc = RCODE_OK =>
                      /\ PostOf(i).hw.wmask[(n - 1) \div 32] = {(n - 1) % 32}
                      /\ \A win \in 0..(num_win - 1) \ {(n - 1) \div 32} :
                             PostOf(i).hw.wmask[win] = hist[i].pre.hw.wmask[win]

\* C39 (amended): selecting only warp num_total_warps - 1 sets bit
\* (num_total_warps - 1) mod 32 of the highest window and no other bit of it,
\* and writes the mask 0 to every other window, window by window in
\* ascending order; no window index >= ceil(num_total_warps/32) is written.
C39_LastWarpSelected ==
    \A i \in DOMAIN hist :
        LastAlone(i) =>
            LET n == hist[i].pre.st.platinfo.num_total_warps
                num_win == (n + 31) \div 32
            IN  /\ \A win \in WinselWritten(hist[i].log) : win < num_win
                /\ hist[i].rc = RCODE_OK =>
                      /\ WinselWritten(hist[i].log) = 0..(num_win - 1)
                      /\ PostOf(i).hw.wmask[(n - 1) \div 32] = {(n - 1) % 32}
                      /\ \A win \in 0..(num_win - 1) \ {(n - 1) \div 32} :
                             PostOf(i).hw.wmask[win] = {}
                      /\ HwMasked(PostOf(i).hw) = {n - 1}

\* warp 64 of 65 selected after warps 0 and 32: window 2 holds bit 0 alone,
\* windows 0 and 1 were written with 0
C39_Witness ==
    /\ Len(hist) = 2 /\ LastAlone(2) /\ hist[2].rc = RCODE_OK
    /\ hist[2].pre.st.platinfo.num_total_warps = 65
    /\ hist[2].pre.hw.wmask[0] # {} /\ hist[2].pre.hw.wmask[1] # {}
    /\ hw.wmask[0] = {} /\ hw.wmask[1] = {} /\ hw.wmask[2] = {0}


\* the stream starts with a whole packet: '$', a payload, '#' and two
\* characters
PacketAhead(rx) ==
    /\ rx # <<>> /\ rx[1] = 36
    /\ find(rx, 35) > 0 /\ Len(rx) >= find(rx, 35) + 3

\* the payload of the packet ahead and the two characters of its checksum
AheadPayload(rx) == SubSeq(rx, 2, find(rx, 35))
AheadDigits(rx) == SubSeq(rx, find(rx, 35) + 2, find(rx, 35) + 3)

\* the two characters are the two hex digits of the low 8 bits of the sum
DigitsMatch(rx) ==
    /\ AllHex(AheadDigits(rx))
    /\ HexByte(AheadDigits(rx), 1) = ByteSum(AheadPayload(rx)) % 256

\* the events of this step of the command loop
NewEvents == {stub'.ev[j].e : j \in (Len(stub.ev) + 1)..Len(stub'.ev)}

\* nothing is dispatched, no handler reaches the back end, nothing is sent
Dropped == NewEvents \cap {"cmd", "backend", "tx"} = {} /\ hist' = hist /\ hw' = hw

\* C40: a received packet whose two checksum digits do not match the low 8
\* bits of the sum of its payload bytes is never dispatched: no command
\* handler runs, no engine operation is invoked and no reply packet is sent
\* for it.
C40_BadChecksumDropped ==
    [][(stub.pos = "serve" /\ PacketAhead(stub.rx) /\ ~DigitsMatch(stub.rx)) => Dropped]_vars

\* the same for a checksum field of two hex digits that are both read, with
\* no hex digit in memory behind them
C40_HexMismatchDropped ==
    [][(/\ stub.pos = "serve" /\ PacketAhead(stub.rx) /\ ~DigitsMatch(stub.rx)
        /\ AllHex(AheadDigits(stub.rx)) /\ ~stub.short /\ ~IsHex(stub.garbage)) => Dropped]_vars

\* "$m0,7#zz" has reached the handler of 'm' with NUL behind checksum_buf
C40_BadPacketServed ==
    /\ stub.garbage = 0 /\ ~stub.short
    /\ \E i \in DOMAIN stub.ev :
          stub.ev[i] = Ev("backend", <<109, 48, 44, 55>>, TRUE)

\* "$?#13" has been answered, with 'f' behind checksum_buf
C40_OverreadServed ==
    /\ stub.garbage = 102 /\ Len(stub.ev) >= 5
    /\ stub.ev[3] = Ev("cmd", <<63>>, TRUE)
    /\ stub.ev[5] = Ev("tx", packetify(<<83, 48, 53>>, TRUE), TRUE)
    /\ stub.calc = 63

\* "$?#00" has been dropped and the packet after it served
C40_Dropped ==
    /\ Len(stub.ev) >= 4
    /\ stub.ev[2].e = "iter" /\ stub.ev[3].e = "iter"
    /\ stub.ev[4] = Ev("cmd", <<63>>, TRUE)

===========================================================================
